---- MODULE Spec2Model ----
(***************************************************************************)
(* Content fingerprinting and identity matching engine of                  *)
(* vitest-observability: TestFingerprinter, TestRegistry and TestMatcher.  *)
(*                                                                         *)
(* Strings are sequences of one-character strings, so that the code's      *)
(* character-level algorithms (Levenshtein distance, split, trim, the      *)
(* normalisation regexes) are computed as the code computes them.          *)
(***************************************************************************)
EXTENDS Integers, Sequences, FiniteSets, TLC

VARIABLES
    registry,     \* TestRegistry.registry: uuid -> entry, kept in insertion (key) order
    pluginRegistry, \* the same of the vitest-testid-plugin package's TestRegistry
    minted,       \* identifiers randomUUID() has returned so far
    clock,        \* the last value Date.now() returned
    options,      \* TestMatcher.options (similarityThreshold, maxCandidates)
    fpOptions,    \* TestFingerprinter.options (hashAlgorithm, preserveVariableNames)
    file,         \* content of the backing file at filePath (or that it is missing)
    config,       \* the plugin's config (autoSave, autoCleanup)
    tasks,        \* testUuid and testFingerprint of each task of the collected file
    assignedUuids, \* the plugin's assignedUuids
    observed,     \* the fingerprinter in use, and its first and latest fingerprintTest calls
    extraction,   \* a source handed to extractTestFunctions, and what it returned
    reporter,     \* the UuidReporter: its onlyUuidTests option and its results map
    other,        \* TestRegistry.registry of a second instance on the same filePath
    last          \* the last call made on the matcher / registry and what it returned

\* The backing file and the plugin's state: what the matcher and the registry's
\* in-memory operations leave alone
hostVars == <<file, config, tasks, assignedUuids, observed, extraction, reporter, other>>

vars == <<registry, pluginRegistry, minted, clock, options, fpOptions, file, config,
         tasks, assignedUuids, observed, extraction, reporter, other, last>>

(***************************************************************************)
(* Bounds of the model.                                                    *)
(***************************************************************************)
MaxUuid == 2      \* size of the pool randomUUID() draws from
MaxClock == 1     \* Date.now() ranges over 0..MaxClock
MaxTasks == 2     \* number of test tasks of the collected file
MaxInstances == 3 \* number of fingerprinter instances constructed
MaxCalls == 2     \* number of top-level calls of a parsed source
MaxPacks == 2     \* number of packs of one reporter onTaskUpdate call

\* JavaScript undefined where a number is expected (an argument that was not
\* passed, a field that was never set); body lengths are never negative.
Undefined == -1
\* No identifier (findMatch returned null); identifiers are 1..MaxUuid.
NoUuid == 0

(***************************************************************************)
(* Character classes and small string helpers.                             *)
(***************************************************************************)
Min2(a, b) == IF a <= b THEN a ELSE b
Max2(a, b) == IF a >= b THEN a ELSE b

WhiteSpace == {" ", "\t", "\n", "\r"}
UpperCase == {"A", "B", "C", "D", "E", "F", "G", "H", "I", "J", "K", "L", "M",
              "N", "O", "P", "Q", "R", "S", "T", "U", "V", "W", "X", "Y", "Z"}

RECURSIVE TrimLeft(_)
TrimLeft(s) ==
    IF s # << >> /\ Head(s) \in WhiteSpace THEN TrimLeft(Tail(s)) ELSE s

RECURSIVE TrimRight(_)
TrimRight(s) ==
    IF s # << >> /\ s[Len(s)] \in WhiteSpace
    THEN TrimRight(SubSeq(s, 1, Len(s) - 1))
    ELSE s

\* String.prototype.trim
Trim(s) == TrimRight(TrimLeft(s))

\* nodeId.split('::'), keeping only the last part and the number of parts:
\* the separator is matched leftmost-first, without overlap.
RECURSIVE SplitLast(_, _, _)
SplitLast(s, cur, n) ==
    IF s = << >> THEN [parts |-> n + 1, lastPart |-> cur]
    ELSE IF Len(s) >= 2 /\ s[1] = ":" /\ s[2] = ":"
         THEN SplitLast(SubSeq(s, 3, Len(s)), << >>, n + 1)
         ELSE SplitLast(Tail(s), Append(cur, Head(s)), n)

\* testId.replace(/_/g, ' ').replace(/([A-Z])/g, ' $1')
RECURSIVE Loosen(_)
Loosen(s) ==
    IF s = << >> THEN << >>
    ELSE IF Head(s) = "_" THEN <<" ">> \o Loosen(Tail(s))
    ELSE IF Head(s) \in UpperCase THEN <<" ", Head(s)>> \o Loosen(Tail(s))
    ELSE <<Head(s)>> \o Loosen(Tail(s))

\* Index of the last '>' of s, 0 when s has none.
RECURSIVE LastGt(_, _)
LastGt(s, i) ==
    IF i = 0 THEN 0
    ELSE IF s[i] = ">" THEN i
    ELSE LastGt(s, i - 1)

\* TestMatcher.extractTestNameFromNodeId; the result is a string or null:
\* [isNull |-> TRUE] stands for null.
extractTestNameFromNodeId(nodeId) ==
    LET sp == SplitLast(nodeId, << >>, 0)
        gt == LastGt(nodeId, Len(nodeId))
    IN
    IF sp.parts > 1
    THEN [isNull |-> FALSE, value |-> Trim(Loosen(sp.lastPart))]
    \* />\s*([^>]+)\s*$/ needs at least one character after the last '>'
    ELSE IF gt = 0 \/ gt = Len(nodeId)
         THEN [isNull |-> TRUE, value |-> << >>]
         ELSE [isNull |-> FALSE, value |-> Trim(SubSeq(nodeId, gt + 1, Len(nodeId)))]

(***************************************************************************)
(* Levenshtein distance, row by row as the code fills its matrix.          *)
(***************************************************************************)
\* Row j of the matrix from row j-1; rows are indexed 1..Len(str1)+1 for
\* the code's columns 0..str1.length.  The test on the length of the row
\* filled so far always holds: it makes the row a value before the next cell
\* is computed from it.
RECURSIVE LevRow(_, _, _, _, _)
LevRow(prev, str1, ch, i, row) ==
    IF i > Len(str1) THEN row
    ELSE LET indicator == IF str1[i] = ch THEN 0 ELSE 1
             cell == Min2(Min2(row[i] + 1, prev[i + 1] + 1), prev[i] + indicator)
             filled == Append(row, cell)
         IN IF Len(filled) = i + 1 THEN LevRow(prev, str1, ch, i + 1, filled) ELSE filled

RECURSIVE LevRows(_, _, _, _)
LevRows(prev, str1, str2, j) ==
    IF j > Len(str2) THEN prev
    ELSE LET row == LevRow(prev, str1, str2[j], 1, <<j>>)
         IN IF Len(row) = Len(prev) THEN LevRows(row, str1, str2, j + 1) ELSE row

\* TestMatcher.levenshteinDistance
levenshteinDistance(str1, str2) ==
    LevRows([i \in 1..(Len(str1) + 1) |-> i - 1], str1, str2, 1)[Len(str1) + 1]

(***************************************************************************)
(* TestFingerprinter: normalisation of a test body and its hash.           *)
(***************************************************************************)
LowerCase == {"a", "b", "c", "d", "e", "f", "g", "h", "i", "j", "k", "l", "m",
              "n", "o", "p", "q", "r", "s", "t", "u", "v", "w", "x", "y", "z"}
Digit == {"0", "1", "2", "3", "4", "5", "6", "7", "8", "9"}
DigitChars == <<"0", "1", "2", "3", "4", "5", "6", "7", "8", "9">>
\* [+\-*/=<>!&|]
OperatorChar == {"+", "-", "*", "/", "=", "<", ">", "!", "&", "|"}
\* the line terminators '.' does not match and '$' (multiline) stops at
LineTerminator == {"\n", "\r"}
\* \w, [a-zA-Z_$] and [a-zA-Z0-9_$]
WordChar == LowerCase \cup UpperCase \cup Digit \cup {"_"}
IdStart == LowerCase \cup UpperCase \cup {"_", "$"}
IdChar == IdStart \cup Digit

\* Index of the '*' of the first "*/" at or after position i; 0 if none.
RECURSIVE FindClose(_, _)
FindClose(s, i) ==
    IF i + 1 > Len(s) THEN 0
    ELSE IF s[i] = "*" /\ s[i + 1] = "/" THEN i
    ELSE FindClose(s, i + 1)

\* .replace(/\/\*[\s\S]*?\*\//g, '')
RECURSIVE RemoveBlockComments(_)
RemoveBlockComments(s) ==
    IF s = << >> THEN << >>
    ELSE IF Len(s) >= 2 /\ s[1] = "/" /\ s[2] = "*" /\ FindClose(s, 3) > 0
         THEN RemoveBlockComments(SubSeq(s, FindClose(s, 3) + 2, Len(s)))
         ELSE <<Head(s)>> \o RemoveBlockComments(Tail(s))

\* The rest of s from its first line terminator on (all of it if none).
RECURSIVE FromLineEnd(_)
FromLineEnd(s) ==
    IF s = << >> \/ Head(s) \in LineTerminator THEN s ELSE FromLineEnd(Tail(s))

\* .replace(/\/\/.*$/gm, '')
RECURSIVE RemoveLineComments(_)
RemoveLineComments(s) ==
    IF s = << >> THEN << >>
    ELSE IF Len(s) >= 2 /\ s[1] = "/" /\ s[2] = "/"
         THEN RemoveLineComments(FromLineEnd(s))
         ELSE <<Head(s)>> \o RemoveLineComments(Tail(s))

\* Number of leading characters of s that are in the class cls.
RECURSIVE RunLen(_, _)
RunLen(s, cls) ==
    IF s # << >> /\ Head(s) \in cls THEN 1 + RunLen(Tail(s), cls) ELSE 0

\* .replace(/\s*([+\-*/=<>!&|]+)\s*/g, ' $1 ')
RECURSIVE PadOperators(_)
PadOperators(s) ==
    IF s = << >> THEN << >>
    ELSE LET w == RunLen(s, WhiteSpace)
             afterWs == SubSeq(s, w + 1, Len(s))
             o == RunLen(afterWs, OperatorChar)
             afterOp == SubSeq(afterWs, o + 1, Len(afterWs))
             w2 == RunLen(afterOp, WhiteSpace)
         IN IF o > 0
            THEN <<" ">> \o SubSeq(afterWs, 1, o) \o <<" ">>
                     \o PadOperators(SubSeq(afterOp, w2 + 1, Len(afterOp)))
            ELSE <<Head(s)>> \o PadOperators(Tail(s))

\* .replace(/\s+/g, ' ')
RECURSIVE CollapseWhitespace(_)
CollapseWhitespace(s) ==
    IF s = << >> THEN << >>
    ELSE IF Head(s) \in WhiteSpace
         THEN <<" ">> \o CollapseWhitespace(SubSeq(s, RunLen(s, WhiteSpace) + 1, Len(s)))
         ELSE <<Head(s)>> \o CollapseWhitespace(Tail(s))

\* .replace(/[;,]\s*$/, '')
DropTrailingTerminator(s) ==
    LET t == TrimRight(s) IN
    IF t # << >> /\ t[Len(t)] \in {";", ","} THEN SubSeq(t, 1, Len(t) - 1) ELSE s

\* TestFingerprinter.simpleNormalize
simpleNormalize(body) ==
    DropTrailingTerminator(
        Trim(CollapseWhitespace(PadOperators(
            RemoveLineComments(RemoveBlockComments(body))))))

preservedNames == {
    <<"e", "x", "p", "e", "c", "t">>,
    <<"t", "e", "s", "t">>,
    <<"i", "t">>,
    <<"d", "e", "s", "c", "r", "i", "b", "e">>,
    <<"b", "e", "f", "o", "r", "e", "E", "a", "c", "h">>,
    <<"a", "f", "t", "e", "r", "E", "a", "c", "h">>,
    <<"c", "o", "n", "s", "o", "l", "e">>,
    <<"w", "i", "n", "d", "o", "w">>,
    <<"d", "o", "c", "u", "m", "e", "n", "t">>,
    <<"p", "r", "o", "c", "e", "s", "s">>,
    <<"r", "e", "q", "u", "i", "r", "e">>,
    <<"i", "m", "p", "o", "r", "t">>,
    <<"t", "r", "u", "e">>,
    <<"f", "a", "l", "s", "e">>,
    <<"n", "u", "l", "l">>,
    <<"u", "n", "d", "e", "f", "i", "n", "e", "d">>,
    <<"c", "o", "n", "s", "t">>,
    <<"l", "e", "t">>,
    <<"v", "a", "r">>,
    <<"f", "u", "n", "c", "t", "i", "o", "n">>,
    <<"r", "e", "t", "u", "r", "n">>,
    <<"i", "f">>,
    <<"e", "l", "s", "e">>,
    <<"f", "o", "r">>,
    <<"w", "h", "i", "l", "e">>,
    <<"d", "o">>,
    <<"t", "o", "B", "e">>,
    <<"t", "o", "E", "q", "u", "a", "l">>,
    <<"t", "o", "B", "e", "T", "r", "u", "t", "h", "y">>,
    <<"t", "o", "B", "e", "F", "a", "l", "s", "y">>,
    <<"t", "o", "C", "o", "n", "t", "a", "i", "n">>
}

\* \b at the gap before position p (1..Len(s)+1)
IsWordBoundary(s, p) ==
    (p > 1 /\ s[p - 1] \in WordChar) # (p <= Len(s) /\ s[p] \in WordChar)

\* Largest k in lo..hi with a word boundary after position k; 0 if none.
RECURSIVE LastBoundary(_, _, _)
LastBoundary(s, lo, hi) ==
    IF hi < lo THEN 0
    ELSE IF IsWordBoundary(s, hi + 1) THEN hi
    ELSE LastBoundary(s, lo, hi - 1)

\* End of the match of /\b([a-zA-Z_$][a-zA-Z0-9_$]*)\b/ starting at i; 0 if none.
IdentifierEnd(s, i) ==
    IF IsWordBoundary(s, i) /\ s[i] \in IdStart
    THEN LastBoundary(s, i, i + RunLen(SubSeq(s, i + 1, Len(s)), IdChar))
    ELSE 0

\* Number.prototype.toString of a counter
RECURSIVE Decimal(_)
Decimal(n) ==
    IF n < 10 THEN <<DigitChars[n + 1]>>
    ELSE Decimal(n \div 10) \o <<DigitChars[(n % 10) + 1]>>

\* Position of name in the nameMap (a sequence in insertion order); 0 if absent.
RECURSIVE IndexOf(_, _, _)
IndexOf(seq, x, i) ==
    IF i > Len(seq) THEN 0
    ELSE IF seq[i] = x THEN i
    ELSE IndexOf(seq, x, i + 1)

\* The replace callback of normalizeVariableNames, run over the matches
\* from position i on; nameMap holds the names seen so far, counter = Len(nameMap).
RECURSIVE ReplaceIdentifiers(_, _, _)
ReplaceIdentifiers(s, i, nameMap) ==
    IF i > Len(s) THEN << >>
    ELSE LET e == IdentifierEnd(s, i) IN
         IF e = 0 THEN <<s[i]>> \o ReplaceIdentifiers(s, i + 1, nameMap)
         ELSE LET match == SubSeq(s, i, e)
                  known == IndexOf(nameMap, match, 1)
                  newMap == IF match \in preservedNames \/ known > 0
                            THEN nameMap ELSE Append(nameMap, match)
                  counter == IF known > 0 THEN known - 1 ELSE Len(nameMap)
              IN (IF match \in preservedNames THEN match
                  ELSE <<"_", "v", "a", "r">> \o Decimal(counter))
                 \o ReplaceIdentifiers(s, e + 1, newMap)

\* TestFingerprinter.normalizeVariableNames
normalizeVariableNames(code) == ReplaceIdentifiers(code, 1, << >>)

\* TestFingerprinter.normalizeTestBody
normalizeTestBody(body, opts) ==
    LET normalized == simpleNormalize(body) IN
    IF ~opts.preserveVariableNames
    THEN normalizeVariableNames(normalized)
    ELSE normalized

\* hashString that hashes with sha1 whatever the options say
hashString_AlwaysSha1(input, opts) == [algorithm |-> "sha1", text |-> input]

\* TestFingerprinter.hashString: the digest of createHash(algorithm) is kept
\* symbolic, as the pair of the algorithm and the hashed text (two digests
\* are equal exactly when algorithm and text are).
hashString(input, opts) == [algorithm |-> opts.hashAlgorithm, text |-> input]

\* TestFingerprinter.fingerprintTest
fingerprintTest(testFunction, opts) ==
    hashString(normalizeTestBody(testFunction.body, opts), opts)

\* The size in bytes of a digest of createHash(algorithm)
Sha1DigestBytes == 20
Sha256DigestBytes == 32
DigestBytes(algorithm) ==
    IF algorithm = "sha256" THEN Sha256DigestBytes ELSE Sha1DigestBytes

\* The length of digest('hex'): two hex digits a byte
DigestHexLength(digest) == 2 * DigestBytes(digest.algorithm)

(***************************************************************************)
(* TestFingerprinter.extractTestFunctions.  What acorn's parse returns is  *)
(* kept as the call expressions of the tree: each has a callee and         *)
(* arguments, and a function argument holds the calls of its body.         *)
(***************************************************************************)
\* A callee: an Identifier (name) or a MemberExpression (object.property)
Identifier(name) ==
    [type |-> "Identifier", name |-> name, object |-> "", property |-> ""]
MemberExpression(object, property) ==
    [type |-> "MemberExpression", name |-> "", object |-> object, property |-> property]

\* An argument: its node type, whether its value is a string, the value or
\* the text of the function's body, and the calls inside the body
Argument(type, isString, text, calls) ==
    [type |-> type, isString |-> isString, text |-> text, calls |-> calls]

CallExpression(callee, arguments) == [callee |-> callee, arguments |-> arguments]

\* TestFingerprinter.isTestCall
isTestCall(node) ==
    \/ /\ node.callee.type = "Identifier"
       /\ node.callee.name \in {"test", "it", "describe"}
    \/ /\ node.callee.type = "MemberExpression"
       /\ node.callee.object = "test"
       /\ node.callee.property \in {"skip", "only", "todo"}

\* The null extractTestFunction returns
NoFunction == [name |-> << >>, body |-> << >>, isNull |-> TRUE]

\* TestFingerprinter.extractTestFunction (the record without its source field)
extractTestFunction(node) ==
    IF Len(node.arguments) < 1 THEN NoFunction
    ELSE IF node.arguments[1].type # "Literal" \/ ~node.arguments[1].isString
    THEN NoFunction
    ELSE IF Len(node.arguments) < 2 THEN NoFunction
    ELSE IF node.arguments[2].type \notin {"FunctionExpression", "ArrowFunctionExpression"}
    THEN NoFunction
    ELSE [name |-> node.arguments[1].text, body |-> node.arguments[2].text,
          isNull |-> FALSE]

\* TestFingerprinter.walkAst: the call expressions in the order the callback
\* sees them, a call before the calls inside its arguments
RECURSIVE walkAst(_)
RECURSIVE walkArguments(_)
walkAst(calls) ==
    IF calls = << >> THEN << >>
    ELSE <<Head(calls)>> \o walkArguments(Head(calls).arguments) \o walkAst(Tail(calls))

walkArguments(arguments) ==
    IF arguments = << >> THEN << >>
    ELSE walkAst(Head(arguments).calls) \o walkArguments(Tail(arguments))

\* The callback of extractTestFunctions over the nodes walked
RECURSIVE pushTestFunctions(_)
pushTestFunctions(nodes) ==
    IF nodes = << >> THEN << >>
    ELSE (IF isTestCall(Head(nodes)) /\ ~extractTestFunction(Head(nodes)).isNull
          THEN <<[name |-> extractTestFunction(Head(nodes)).name,
                  body |-> extractTestFunction(Head(nodes)).body]>>
          ELSE << >>)
         \o pushTestFunctions(Tail(nodes))

\* TestFingerprinter.extractTestFunctions: parse throws on a source that is
\* not a program, and the catch returns []
extractTestFunctions(source) ==
    IF ~source.parseable THEN << >>
    ELSE pushTestFunctions(walkAst(source.calls))

(***************************************************************************)
(* The inputs the operations are called with.                              *)
(***************************************************************************)
\* Test functions (name, body); the source field is not read by the matcher.
\*   "a b" / x+1      "a c" / x + 1 (the same body up to whitespace)
\*   "a b" / x+2      (only the literal changed)
\*   "zz"  / y-1;     (unrelated)
TestFunctions == {
    [name |-> <<"a", " ", "b">>, body |-> <<"x", "+", "1">>],
    [name |-> <<"a", " ", "c">>, body |-> <<"x", " ", "+", " ", "1">>],
    [name |-> <<"a", " ", "b">>, body |-> <<"x", "+", "2">>],
    [name |-> <<"z", "z">>,      body |-> <<"y", "-", "1", ";">>]
}

\* Node ids: f::a_b   f::aC (camel case)   q>zz ('>' separator)
NodeIds == {
    <<"f", ":", ":", "a", "_", "b">>,
    <<"f", ":", ":", "a", "C">>,
    <<"q", ">", "z", "z">>
}

\* The arguments of the direct registry calls: the hashes (and body lengths)
\* of "a b" / x+1, "a c" / x + 1 and "a b" / x+2, at f::a_b and f::aC
DirectTestFunctions == {t \in TestFunctions : t.name # <<"z", "z">>}
DirectNodeIds == {n \in NodeIds : n[1] = "f"}

\* A node id whose test name holds a quotation mark: f::"
QuotedNodeId == <<"f", ":", ":", "\"">>

(***************************************************************************)
(* The file the plugin collects: MaxTasks tests add1, add2, ... at the top *)
(* level of the file m at path f (relative to the working directory).      *)
(***************************************************************************)
FilePath == <<"f">>
FileName == <<"m">>
TaskIds == 1..MaxTasks
TaskName(t) == <<"a", "d", "d">> \o Decimal(t)

\* The parent chain of task t, from the task up: the test, then its file
\* (the suite of a top-level test is the file task, whose name is not empty)
TaskChain(t) == <<TaskName(t), FileName>>

\* taskPath.join('::') of generateNodeId: the names of the chain, outermost first
RECURSIVE JoinChain(_)
JoinChain(chain) ==
    IF chain = << >> THEN << >>
    ELSE IF Len(chain) = 1 THEN chain[1]
    ELSE JoinChain(Tail(chain)) \o <<":", ":">> \o chain[1]

\* generateNodeId(filepath, task): the file path is already relative, and
\* no name of the chain is empty
generateNodeId(filepath, chain) == filepath \o <<":", ":">> \o JoinChain(chain)

\* What extractTestFunctions returns for the sources the file can have:
\* every test with a body of its own (x+1, x+2, ...), every test with the
\* same body x+1, and a source acorn fails to parse (no function)
DistinctBodies == [t \in TaskIds |-> [name |-> TaskName(t), body |-> <<"x", "+">> \o Decimal(t)]]
SameBodies == [t \in TaskIds |-> [name |-> TaskName(t), body |-> <<"x", "+", "1">>]]
Unparseable == << >>
Sources == {DistinctBodies, SameBodies, Unparseable}

PluginTestFunctions ==
    {DistinctBodies[t] : t \in TaskIds} \cup {SameBodies[t] : t \in TaskIds}
PluginNodeIds == {generateNodeId(FilePath, TaskChain(t)) : t \in TaskIds}

AllTestFunctions == TestFunctions \cup PluginTestFunctions
AllNodeIds == NodeIds \cup PluginNodeIds \cup {QuotedNodeId}

\* similarityThreshold in percent: the default 0.8, and the 0.6 the tests configure
DefaultSimilarityThreshold == 80
TestSimilarityThreshold == 60
DefaultMaxCandidates == 20
\* A stricter threshold a user passes in matcherOptions (0.9)
StrictSimilarityThreshold == 90

MatcherOptionsChoices ==
    {[similarityThreshold |-> t, maxCandidates |-> DefaultMaxCandidates] :
        t \in {DefaultSimilarityThreshold, TestSimilarityThreshold}}

\* The fingerprinter's defaults: sha1, variable names not preserved
FingerprintOptionsChoices ==
    {[hashAlgorithm |-> "sha1", preserveVariableNames |-> FALSE]}

\* The fingerprinter with either hash algorithm
HashAlgorithmChoices ==
    {[hashAlgorithm |-> a, preserveVariableNames |-> FALSE] : a \in {"sha1", "sha256"}}

\* fingerprintTest is a function of the test function and the options: its
\* values are computed once per pair.
FingerprintTable ==
    [o \in FingerprintOptionsChoices \cup HashAlgorithmChoices |->
        [t \in AllTestFunctions |-> fingerprintTest(t, o)]]

Fingerprint(testFunction, fpOpts) == FingerprintTable[fpOpts][testFunction]


Uuids == 1..MaxUuid
Times == 0..MaxClock

(***************************************************************************)
(* TestRegistry (src/registry.ts).  The registry object is a sequence of   *)
(* entries in key insertion order, which is the order Object.entries,      *)
(* Object.keys and Object.values enumerate the (non-numeric) uuid keys in. *)
(***************************************************************************)
HasUuid(reg, uuid) == \E i \in 1..Len(reg) : reg[i].uuid = uuid

\* findByHash scanning for the last entry of the hash, not the first
RECURSIVE LastIndexWithHash(_, _, _)
LastIndexWithHash(reg, hash, i) ==
    IF i > Len(reg) THEN 0
    ELSE IF LastIndexWithHash(reg, hash, i + 1) # 0
         THEN LastIndexWithHash(reg, hash, i + 1)
    ELSE IF reg[i].hash = hash THEN i
    ELSE 0

RECURSIVE FirstIndexWithHash(_, _, _)
FirstIndexWithHash(reg, hash, i) ==
    IF i > Len(reg) THEN 0
    ELSE IF reg[i].hash = hash THEN i
    ELSE FirstIndexWithHash(reg, hash, i + 1)

\* findByHash that compares the hashed text and not the digest
findByHash_ComparesText(reg, hash) ==
    IF \E i \in 1..Len(reg) : reg[i].hash.text = hash.text
    THEN CHOOSE i \in 1..Len(reg) :
             /\ reg[i].hash.text = hash.text
             /\ \A j \in 1..(i - 1) : reg[j].hash.text # hash.text
    ELSE 0

\* TestRegistry.findByHash: index of the entry returned, 0 for undefined
findByHash(reg, hash) == FirstIndexWithHash(reg, hash, 1)

\* TestRegistry.findByUuid: index of the entry returned, 0 for undefined
findByUuid(reg, uuid) ==
    IF HasUuid(reg, uuid)
    THEN CHOOSE i \in 1..Len(reg) : reg[i].uuid = uuid
    ELSE 0

\* add that leaves createdAt unset (0) and stamps lastSeen only
add_CreatedAtUnset(reg, uuid, now, hash, nodeId, bodyLength) ==
    Append(reg, [uuid |-> uuid, hash |-> hash, lastNodeId |-> nodeId,
                 bodyLength |-> bodyLength, createdAt |-> 0, lastSeen |-> now])

\* add that first deletes the entries recorded at the same node id
add_ReplacesSameNodeId(reg, uuid, now, hash, nodeId, bodyLength) ==
    Append(SelectSeq(reg, LAMBDA e : e.lastNodeId # nodeId),
           [uuid |-> uuid, hash |-> hash, lastNodeId |-> nodeId,
            bodyLength |-> bodyLength, createdAt |-> now, lastSeen |-> now])

\* TestRegistry.add, with uuid = randomUUID() and now = Date.now()
add(reg, uuid, now, hash, nodeId, bodyLength) ==
    Append(reg, [uuid |-> uuid, hash |-> hash, lastNodeId |-> nodeId,
                 bodyLength |-> bodyLength, createdAt |-> now, lastSeen |-> now])

\* update that refreshes hash and lastSeen but not the location
update_KeepsLocation(reg, uuid, now, hash, nodeId, bodyLength) ==
    [i \in 1..Len(reg) |->
        IF reg[i].uuid = uuid
        THEN [reg[i] EXCEPT !.hash = hash, !.bodyLength = bodyLength, !.lastSeen = now]
        ELSE reg[i]]

\* update that creates the entry when the uuid has none
update_Upserts(reg, uuid, now, hash, nodeId, bodyLength) ==
    IF \E i \in 1..Len(reg) : reg[i].uuid = uuid
    THEN [i \in 1..Len(reg) |->
            IF reg[i].uuid = uuid
            THEN [reg[i] EXCEPT !.hash = hash, !.lastNodeId = nodeId,
                                !.bodyLength = bodyLength, !.lastSeen = now]
            ELSE reg[i]]
    ELSE Append(reg, [uuid |-> uuid, hash |-> hash, lastNodeId |-> nodeId,
                      bodyLength |-> bodyLength, createdAt |-> now, lastSeen |-> now])

\* update that deletes the entry and sets it again, at the end
update_Reinserts(reg, uuid, now, hash, nodeId, bodyLength) ==
    IF \E i \in 1..Len(reg) : reg[i].uuid = uuid
    THEN SelectSeq(reg, LAMBDA e : e.uuid # uuid)
            \o <<[(CHOOSE e \in {reg[i] : i \in 1..Len(reg)} : e.uuid = uuid)
                     EXCEPT !.hash = hash, !.lastNodeId = nodeId,
                            !.bodyLength = bodyLength, !.lastSeen = now]>>
    ELSE reg

\* update that stamps createdAt where it should stamp lastSeen
update_StampsCreatedAt(reg, uuid, now, hash, nodeId, bodyLength) ==
    [i \in 1..Len(reg) |->
        IF reg[i].uuid = uuid
        THEN [reg[i] EXCEPT !.hash = hash, !.lastNodeId = nodeId,
                            !.bodyLength = bodyLength, !.createdAt = now]
        ELSE reg[i]]

\* TestRegistry.update, with now = Date.now()
update(reg, uuid, now, hash, nodeId, bodyLength) ==
    [i \in 1..Len(reg) |->
        IF reg[i].uuid = uuid
        THEN [reg[i] EXCEPT !.hash = hash, !.lastNodeId = nodeId,
                            !.bodyLength = bodyLength, !.lastSeen = now]
        ELSE reg[i]]

\* TestRegistry.getAllEntries
getAllEntries(reg) == reg

\* TestRegistry.size
size(reg) == Len(reg)

\* cleanup with the membership test inverted: it removes the active entries
cleanup_RemovesActive(reg, activeUuids) ==
    LET toRemove == SelectSeq([i \in 1..Len(reg) |-> reg[i].uuid],
                              LAMBDA uuid : uuid \in activeUuids)
        removing == {toRemove[k] : k \in 1..Len(toRemove)}
    IN [registry |-> SelectSeq(reg, LAMBDA e : e.uuid \notin removing),
        removed |-> Len(toRemove)]

\* cleanup that deletes only the first key it pushed to toRemove
cleanup_RemovesFirstInactive(reg, activeUuids) ==
    LET toRemove == SelectSeq([i \in 1..Len(reg) |-> reg[i].uuid],
                              LAMBDA uuid : uuid \notin activeUuids)
        removing == {toRemove[k] : k \in 1..Min2(1, Len(toRemove))}
    IN [registry |-> SelectSeq(reg, LAMBDA e : e.uuid \notin removing),
        removed |-> Min2(1, Len(toRemove))]

\* TestRegistry.cleanup: the registry afterwards and the number returned
cleanup(reg, activeUuids) ==
    LET toRemove == SelectSeq([i \in 1..Len(reg) |-> reg[i].uuid],
                              LAMBDA uuid : uuid \notin activeUuids)
        removing == {toRemove[k] : k \in 1..Len(toRemove)}
    IN [registry |-> SelectSeq(reg, LAMBDA e : e.uuid \notin removing),
        removed |-> Len(toRemove)]

(***************************************************************************)
(* TestRegistry of the vitest-testid-plugin package: its entries carry     *)
(* uuid, nodeId, hash, bodyLength, timestamp, lastNodeId and lastSeen.     *)
(***************************************************************************)
\* TestRegistry.add (vitest-testid-plugin)
pluginAdd(reg, uuid, now, hash, nodeId, bodyLength) ==
    Append(reg, [uuid |-> uuid, nodeId |-> nodeId, hash |-> hash,
                 bodyLength |-> bodyLength, timestamp |-> now,
                 lastNodeId |-> nodeId, lastSeen |-> now])

\* TestRegistry.update (vitest-testid-plugin); Date.now() is called twice:
\* seenNow for lastSeen, then stampNow for timestamp
pluginUpdate(reg, uuid, seenNow, stampNow, hash, nodeId, bodyLength) ==
    [i \in 1..Len(reg) |->
        IF reg[i].uuid = uuid
        THEN [reg[i] EXCEPT !.hash = hash, !.nodeId = nodeId,
                            !.bodyLength = bodyLength, !.lastNodeId = nodeId,
                            !.lastSeen = seenNow, !.timestamp = stampNow]
        ELSE reg[i]]

(***************************************************************************)
(* TestMatcher.  Similarities are exact rationals kept as integers:        *)
(* a Levenshtein similarity s is the integer s * SimScale, a composite     *)
(* score c is the integer c * ScoreOne.                                    *)
(***************************************************************************)
RECURSIVE Gcd(_, _)
Gcd(a, b) == IF b = 0 THEN a ELSE Gcd(b, a % b)

RECURSIVE LcmUpTo(_)
LcmUpTo(n) == IF n <= 1 THEN 1 ELSE (LcmUpTo(n - 1) * n) \div Gcd(LcmUpTo(n - 1), n)

RECURSIVE MaxOf(_)
MaxOf(S) ==
    IF S = {} THEN 0
    ELSE LET x == CHOOSE y \in S : TRUE IN Max2(x, MaxOf(S \ {x}))

\* The longest string a similarity is computed on.
MaxStrLen ==
    MaxOf({Len(n) : n \in AllNodeIds} \cup {Len(t.name) : t \in AllTestFunctions}
          \cup {Len(extractTestNameFromNodeId(n).value) : n \in AllNodeIds})

SimScale == LcmUpTo(MaxStrLen)

\* Weights of calculateSimilarity, in tenths: 0.5 and 0.5
NodeIdWeight == 5
NameWeight == 5
WeightScale == 10

\* The integer that stands for a score (or confidence) of 1.0
ScoreOne == SimScale * WeightScale

\* TestMatcher.calculateLevenshteinSimilarity
calculateLevenshteinSimilarity(str1, str2) ==
    IF str1 = str2 THEN SimScale
    ELSE IF Len(str1) = 0 \/ Len(str2) = 0 THEN 0
    ELSE LET distance == levenshteinDistance(str1, str2)
             maxLength == Max2(Len(str1), Len(str2))
         IN ((maxLength - distance) * SimScale) \div maxLength

\* calculateSimilarity weighting the node id 0.7 and the name 0.3
calculateSimilarity_NodeIdHeavy(testFunction, entry, nodeId) ==
    LET nodeIdSimilarity == calculateLevenshteinSimilarity(nodeId, entry.lastNodeId)
        testName == testFunction.name
        extracted == extractTestNameFromNodeId(entry.lastNodeId)
        existingTestName == IF extracted.isNull \/ extracted.value = << >>
                            THEN testName ELSE extracted.value
        nameSimilarity == calculateLevenshteinSimilarity(testName, existingTestName)
    IN nodeIdSimilarity * 7 + nameSimilarity * 3

\* TestMatcher.calculateSimilarity
calculateSimilarity(testFunction, entry, nodeId) ==
    LET nodeIdSimilarity == calculateLevenshteinSimilarity(nodeId, entry.lastNodeId)
        testName == testFunction.name
        extracted == extractTestNameFromNodeId(entry.lastNodeId)
        \* extractTestNameFromNodeId(...) || testName: null and '' are falsy
        existingTestName == IF extracted.isNull \/ extracted.value = << >>
                            THEN testName ELSE extracted.value
        nameSimilarity == calculateLevenshteinSimilarity(testName, existingTestName)
        similarity == nodeIdSimilarity * NodeIdWeight + nameSimilarity * NameWeight
        totalWeight == NodeIdWeight + NameWeight
    IN IF totalWeight > 0 THEN (similarity * WeightScale) \div totalWeight ELSE 0

\* calculateSimilarity reads the test function's name, the entry's lastNodeId
\* and the node id only: its values are computed once per such triple.
SimilarityTable ==
    [name \in {t.name : t \in AllTestFunctions} |->
        [lastNodeId \in AllNodeIds |->
            [nodeId \in AllNodeIds |->
                calculateSimilarity([name |-> name], [lastNodeId |-> lastNodeId],
                                    nodeId)]]]

Similarity(testFunction, entry, nodeId) ==
    SimilarityTable[testFunction.name][entry.lastNodeId][nodeId]

\* similarity >= this.options.similarityThreshold (the threshold is in percent)
AtLeastThreshold(similarity, opts) ==
    similarity * 100 >= opts.similarityThreshold * ScoreOne

\* The comparator reversed, (a, b) => a.similarity - b.similarity
RECURSIVE InsertSorted_Ascending(_, _)
InsertSorted_Ascending(sorted, c) ==
    IF sorted = << >> THEN <<c>>
    ELSE IF Head(sorted).similarity <= c.similarity
         THEN <<Head(sorted)>> \o InsertSorted_Ascending(Tail(sorted), c)
         ELSE <<c>> \o sorted

\* An unstable sort: of two candidates of equal similarity the later comes first
RECURSIVE InsertSorted_TiesReversed(_, _)
InsertSorted_TiesReversed(sorted, c) ==
    IF sorted = << >> THEN <<c>>
    ELSE IF Head(sorted).similarity > c.similarity
         THEN <<Head(sorted)>> \o InsertSorted_TiesReversed(Tail(sorted), c)
         ELSE <<c>> \o sorted

\* Insert c into a list sorted by (a, b) => b.similarity - a.similarity,
\* after every element that does not sort after it (the sort is stable).
RECURSIVE InsertSorted(_, _)
InsertSorted(sorted, c) ==
    IF sorted = << >> THEN <<c>>
    ELSE IF Head(sorted).similarity >= c.similarity
         THEN <<Head(sorted)>> \o InsertSorted(Tail(sorted), c)
         ELSE <<c>> \o sorted

\* candidates.sort((a, b) => b.similarity - a.similarity)
RECURSIVE SortBySimilarity(_)
SortBySimilarity(candidates) ==
    IF candidates = << >> THEN << >>
    ELSE InsertSorted(SortBySimilarity(SubSeq(candidates, 1, Len(candidates) - 1)),
                      candidates[Len(candidates)])

NoMatch(newHash) ==
    [isNull |-> TRUE, uuid |-> NoUuid, confidence |-> 0,
     existingHash |-> newHash, newHash |-> newHash, isExactMatch |-> FALSE]

\* The body of the loop of findFuzzyMatch: the candidates entry contributes
Candidate(entry, similarity, newHash, opts) ==
    IF entry.hash = newHash THEN << >>
    ELSE IF AtLeastThreshold(similarity, opts)
         THEN <<[entry |-> entry, similarity |-> similarity]>>
         ELSE << >>

\* The loop of findFuzzyMatch over allEntries
RECURSIVE FuzzyCandidates(_, _, _, _, _)
FuzzyCandidates(allEntries, testFunction, newHash, nodeId, opts) ==
    IF allEntries = << >> THEN << >>
    ELSE Candidate(Head(allEntries), Similarity(testFunction, Head(allEntries), nodeId),
                   newHash, opts)
         \o FuzzyCandidates(Tail(allEntries), testFunction, newHash, nodeId, opts)

\* The end of findFuzzyMatch: the candidates sorted, bestMatch = candidates[0]
bestMatchOf(candidates, newHash) ==
    IF Len(candidates) = 0 THEN NoMatch(newHash)
    ELSE [isNull |-> FALSE, uuid |-> candidates[1].entry.uuid,
          confidence |-> candidates[1].similarity,
          existingHash |-> candidates[1].entry.hash, newHash |-> newHash,
          isExactMatch |-> FALSE]

\* TestMatcher.findFuzzyMatch
findFuzzyMatch(reg, testFunction, newHash, nodeId, opts) ==
    IF Len(getAllEntries(reg)) = 0 THEN NoMatch(newHash)
    ELSE bestMatchOf(
             SortBySimilarity(
                 FuzzyCandidates(getAllEntries(reg), testFunction, newHash, nodeId, opts)),
             newHash)

\* The result of an exact match on the entry at index exactMatch
ExactMatch(reg, exactMatch, newHash) ==
    [isNull |-> FALSE, uuid |-> reg[exactMatch].uuid, confidence |-> ScoreOne,
     existingHash |-> reg[exactMatch].hash, newHash |-> newHash,
     isExactMatch |-> TRUE]

\* findMatch from the fingerprint on, taking an exact hit only at the
\* entry's own node id
matchHash_ExactAtSameNodeId(reg, testFunction, nodeId, opts, newHash, exactMatch) ==
    IF exactMatch # 0 /\ reg[exactMatch].lastNodeId = nodeId
    THEN ExactMatch(reg, exactMatch, newHash)
    ELSE findFuzzyMatch(reg, testFunction, newHash, nodeId, opts)

\* findMatch from the fingerprint on: newHash is the fingerprint and
\* exactMatch what registry.findByHash(newHash) returned
matchHash(reg, testFunction, nodeId, opts, newHash, exactMatch) ==
    IF exactMatch # 0
    THEN ExactMatch(reg, exactMatch, newHash)
    ELSE findFuzzyMatch(reg, testFunction, newHash, nodeId, opts)

\* TestMatcher.findMatch
findMatch(reg, testFunction, nodeId, opts, fpOpts) ==
    matchHash(reg, testFunction, nodeId, opts, Fingerprint(testFunction, fpOpts),
              findByHash(reg, Fingerprint(testFunction, fpOpts)))

\* The loop of getMatchDetails over allEntries: every entry of another hash
\* is a candidate, whatever its similarity
RECURSIVE DetailCandidates(_, _, _, _)
DetailCandidates(allEntries, testFunction, newHash, nodeId) ==
    IF allEntries = << >> THEN << >>
    ELSE (IF Head(allEntries).hash = newHash THEN << >>
          ELSE <<[entry |-> Head(allEntries),
                  similarity |-> Similarity(testFunction, Head(allEntries), nodeId)]>>)
         \o DetailCandidates(Tail(allEntries), testFunction, newHash, nodeId)

\* The match of getMatchDetails taken from the first candidate, whatever its
\* similarity
detailMatchOf_IgnoresThreshold(candidates, newHash, opts) ==
    bestMatchOf(candidates, newHash)

\* candidates.find(c => c.similarity >= this.options.similarityThreshold)
\* and the match built from it
detailMatchOf(candidates, newHash, opts) ==
    bestMatchOf(SelectSeq(candidates,
                          LAMBDA c : AtLeastThreshold(c.similarity, opts)),
                newHash)

\* getMatchDetails returning every candidate, without the slice
detailsOfHash_AllCandidates(reg, testFunction, nodeId, opts, newHash, exactMatch) ==
    IF exactMatch # 0
    THEN [match |-> ExactMatch(reg, exactMatch, newHash), candidates |-> << >>]
    ELSE [match |-> detailMatchOf(
                        SortBySimilarity(DetailCandidates(getAllEntries(reg),
                                                          testFunction, newHash, nodeId)),
                        newHash, opts),
          candidates |-> SortBySimilarity(
                             DetailCandidates(getAllEntries(reg), testFunction,
                                              newHash, nodeId))]

\* getMatchDetails from the fingerprint on
detailsOfHash(reg, testFunction, nodeId, opts, newHash, exactMatch) ==
    IF exactMatch # 0
    THEN [match |-> ExactMatch(reg, exactMatch, newHash), candidates |-> << >>]
    ELSE \* the sorted candidates are bound once
         LET sorted == SortBySimilarity(
                           DetailCandidates(getAllEntries(reg), testFunction,
                                            newHash, nodeId))
         IN [match |-> detailMatchOf(sorted, newHash, opts),
             candidates |-> SubSeq(sorted, 1, Min2(Len(sorted), opts.maxCandidates))]

\* TestMatcher.getMatchDetails
getMatchDetails(reg, testFunction, nodeId, opts, fpOpts) ==
    detailsOfHash(reg, testFunction, nodeId, opts, Fingerprint(testFunction, fpOpts),
                  findByHash(reg, Fingerprint(testFunction, fpOpts)))

\* The branch of assignUuid that never reuses an entry: it adds one whatever
\* findMatch returned
applyMatch_AlwaysAdds(reg, matchResult, newHash, nodeId, uuid, now) ==
    [registry |-> add(reg, uuid, now, newHash, nodeId, Undefined),
     uuid |-> uuid]

\* The branch of assignUuid on what findMatch returned: the registry
\* afterwards and the uuid returned.  newHash is the fingerprint the else
\* branch computes; update and add are called without a bodyLength argument.
applyMatch(reg, matchResult, newHash, nodeId, uuid, now) ==
    IF ~matchResult.isNull
    THEN [registry |-> update(reg, matchResult.uuid, now, matchResult.newHash,
                              nodeId, Undefined),
          uuid |-> matchResult.uuid]
    ELSE [registry |-> add(reg, uuid, now, newHash, nodeId, Undefined),
          uuid |-> uuid]

\* TestMatcher.assignUuid, with uuid = randomUUID() and now = Date.now() for
\* the registry call it makes
assignUuid(reg, testFunction, nodeId, opts, fpOpts, uuid, now) ==
    applyMatch(reg, findMatch(reg, testFunction, nodeId, opts, fpOpts),
               Fingerprint(testFunction, fpOpts), nodeId, uuid, now)

(***************************************************************************)
(* Persistence: TestRegistry.load and TestRegistry.save over the backing   *)
(* file.  The text JSON.stringify writes is kept as its sequence of        *)
(* members, each a key and the sequence of the properties written for it.  *)
(***************************************************************************)
\* No file at filePath (existsSync is false)
Missing == [exists |-> FALSE, decodable |-> FALSE, members |-> << >>]
\* A file JSON.parse throws on, such as '{ invalid json content' or ''
Corrupt == [exists |-> TRUE, decodable |-> FALSE, members |-> << >>]

\* The characters of a JSON string literal for s: '"' and '\' are escaped
\* with a backslash, a line feed is written \n
RECURSIVE JsonEscape(_)
JsonEscape(s) ==
    IF s = << >> THEN << >>
    ELSE (IF Head(s) \in {"\"", "\\"} THEN <<"\\", Head(s)>>
          ELSE IF Head(s) = "\n" THEN <<"\\", "n">>
          ELSE <<Head(s)>>) \o JsonEscape(Tail(s))

\* The string a JSON string literal stands for
RECURSIVE JsonUnescape(_)
JsonUnescape(s) ==
    IF s = << >> THEN << >>
    ELSE IF Head(s) = "\\" /\ Len(s) >= 2
         THEN <<IF s[2] = "n" THEN "\n" ELSE s[2]>> \o JsonUnescape(SubSeq(s, 3, Len(s)))
         ELSE <<Head(s)>> \o JsonUnescape(Tail(s))

\* A property of number value: JSON.stringify leaves out a property whose
\* value is undefined
JsonNumberProperty(name, value) ==
    IF value = Undefined THEN << >> ELSE << <<name, value>> >>

\* stringifyEntry that leaves lastSeen out
stringifyEntry_OmitsLastSeen(e) ==
    << <<"hash", e.hash>>, <<"lastNodeId", JsonEscape(e.lastNodeId)>> >>
        \o JsonNumberProperty("bodyLength", e.bodyLength)
        \o JsonNumberProperty("createdAt", e.createdAt)

\* JSON.stringify of one value of the registry object: its properties in
\* the order add created them in (a digest is hex and needs no escaping)
stringifyEntry(e) ==
    << <<"hash", e.hash>>, <<"lastNodeId", JsonEscape(e.lastNodeId)>> >>
        \o JsonNumberProperty("bodyLength", e.bodyLength)
        \o JsonNumberProperty("createdAt", e.createdAt)
        \o JsonNumberProperty("lastSeen", e.lastSeen)

\* JSON.stringify(this.registry, null, 2): one member per uuid key, in key order
stringify(reg) ==
    [i \in 1..Len(reg) |-> [key |-> reg[i].uuid, properties |-> stringifyEntry(reg[i])]]

\* Index of the property called name in a parsed object; 0 if it has none
RECURSIVE PropertyIndex(_, _, _)
PropertyIndex(properties, name, i) ==
    IF i > Len(properties) THEN 0
    ELSE IF properties[i][1] = name THEN i
    ELSE PropertyIndex(properties, name, i + 1)

\* Reading a number property of a parsed object: undefined when it has none
NumberProperty(properties, name) ==
    IF PropertyIndex(properties, name, 1) = 0 THEN Undefined
    ELSE properties[PropertyIndex(properties, name, 1)][2]

\* The entry of the registry JSON.parse builds from one member
parseEntry(member) ==
    [uuid |-> member.key,
     hash |-> member.properties[PropertyIndex(member.properties, "hash", 1)][2],
     lastNodeId |-> JsonUnescape(
         member.properties[PropertyIndex(member.properties, "lastNodeId", 1)][2]),
     bodyLength |-> NumberProperty(member.properties, "bodyLength"),
     createdAt |-> NumberProperty(member.properties, "createdAt"),
     lastSeen |-> NumberProperty(member.properties, "lastSeen")]

\* JSON.parse(content) of a text JSON.stringify wrote
parse(members) == [i \in 1..Len(members) |-> parseEntry(members[i])]

\* load that lets the error of readFileSync / JSON.parse escape the constructor
load_Rethrows(f) ==
    IF ~f.exists THEN [registry |-> << >>, outcome |-> "missing"]
    ELSE IF f.decodable THEN [registry |-> parse(f.members), outcome |-> "loaded"]
    ELSE [registry |-> << >>, outcome |-> "threw"]

\* TestRegistry.load, called by the constructor on registry = {}: the
\* registry afterwards and how the call ended ("threw": an error escaped)
load(f) ==
    IF ~f.exists THEN [registry |-> << >>, outcome |-> "missing"]
    ELSE IF f.decodable THEN [registry |-> parse(f.members), outcome |-> "loaded"]
    ELSE [registry |-> << >>, outcome |-> "warned"]

\* What writeFileSync can do: write the content, fail leaving the file as it
\* was, or fail after it truncated the file
WriteOutcomes == {"written", "failed", "truncated"}

\* save that lets the error of writeFileSync escape
save_Rethrows(reg, f, written) ==
    [file |-> IF written = "written"
              THEN [exists |-> TRUE, decodable |-> TRUE, members |-> stringify(reg)]
              ELSE IF written = "truncated" THEN Corrupt ELSE f,
     registry |-> reg,
     outcome |-> IF written = "written" THEN "written" ELSE "threw"]

\* save that keeps the members of the file whose keys this.registry lacks
save_Merges(reg, f, written) ==
    [file |-> IF written = "written"
              THEN [exists |-> TRUE, decodable |-> TRUE,
                    members |-> stringify(reg)
                        \o SelectSeq(IF f.decodable THEN f.members ELSE << >>,
                                     LAMBDA m : \A i \in 1..Len(reg) : reg[i].uuid # m.key)]
              ELSE IF written = "truncated" THEN Corrupt ELSE f,
     registry |-> reg,
     outcome |-> IF written = "written" THEN "written" ELSE "failed"]

\* TestRegistry.save: the file and the registry afterwards and how the call
\* ended ("threw": an error escaped)
save(reg, f, written) ==
    [file |-> IF written = "written"
              THEN [exists |-> TRUE, decodable |-> TRUE, members |-> stringify(reg)]
              ELSE IF written = "truncated" THEN Corrupt ELSE f,
     registry |-> reg,
     outcome |-> IF written = "written" THEN "written" ELSE "failed"]

(***************************************************************************)
(* State machine: one matcher over one registry, driven by its host.       *)
(***************************************************************************)
NoTestFunction == [name |-> << >>, body |-> << >>]
NoNodeId == << >>

\* What the last call was and what it returned.  kind is the branch a
\* matcher call took: "exact", "fuzzy" or "none" (no match; assignUuid adds);
\* before is the lastNodeId the entry of the returned uuid had before the call.
Call(op, testFunction, nodeId, active, kind, uuid, confidence, removed, before) ==
    [op |-> op, testFunction |-> testFunction, nodeId |-> nodeId, active |-> active,
     kind |-> kind, uuid |-> uuid, confidence |-> confidence, removed |-> removed,
     before |-> before]

MatchKind(m) == IF m.isNull THEN "none" ELSE IF m.isExactMatch THEN "exact" ELSE "fuzzy"

LastNodeIdOf(reg, uuid) ==
    IF findByUuid(reg, uuid) = 0 THEN NoNodeId ELSE reg[findByUuid(reg, uuid)].lastNodeId

\* Date.now(): the clock does not run backwards
DateNow(now) == now \in Times /\ now >= clock /\ now <= clock + 1

\* randomUUID(): a value it has not returned before.  The code never looks
\* inside an identifier, so the pool is handed out in order.
RandomUuid(uuid) == uuid \in Uuids \ minted /\ \A u \in Uuids \ minted : uuid <= u

\* The plugin's defaults: autoSave and autoCleanup are on
DefaultConfig == [autoSave |-> TRUE, autoCleanup |-> TRUE]

\* A fingerprint no test has: the testFingerprint of a task that has none
NoFingerprint == [algorithm |-> "none", text |-> << >>]

\* The test tasks of the collected file, by position in the file, as vitest
\* hands them over: no testUuid and no testFingerprint
NoTasks == [t \in TaskIds |-> [testUuid |-> NoUuid, testFingerprint |-> NoFingerprint]]

\* A fingerprintTest call as its caller sees it: the fingerprinter instance
\* and its options, the body and the digest returned
Observation(instance, opts, body, digest) ==
    [instance |-> instance, options |-> opts, body |-> body, digest |-> digest]

NoObservation ==
    Observation(0, [hashAlgorithm |-> "none", preserveVariableNames |-> FALSE], << >>,
                NoFingerprint)

\* new UuidReporter(): onlyUuidTests is off, no result yet
DefaultReporter == [onlyUuidTests |-> FALSE, results |-> << >>]

\* No source handed to extractTestFunctions
NoExtraction ==
    [source |-> [parseable |-> FALSE, calls |-> << >>], called |-> FALSE, result |-> << >>]

\* The first fingerprinter, before any call
NoneObserved == [instance |-> 1, first |-> NoObservation, latest |-> NoObservation]

(***************************************************************************)
(* The plugin (testIdPlugin): collection and run end.                      *)
(***************************************************************************)
\* The plugin's matcherOptions: the defaults, or a stricter threshold
PluginOptionsChoices ==
    {[similarityThreshold |-> t, maxCandidates |-> DefaultMaxCandidates] :
        t \in {DefaultSimilarityThreshold, StrictSimilarityThreshold}}

\* autoSave and autoCleanup as the user sets them
ConfigChoices == [autoSave : BOOLEAN, autoCleanup : BOOLEAN]

\* testFunctions.find(fn => fn.name === name): the index of the first, or 0
RECURSIVE FindByName(_, _, _)
FindByName(testFunctions, name, i) ==
    IF i > Len(testFunctions) THEN 0
    ELSE IF testFunctions[i].name = name THEN i
    ELSE FindByName(testFunctions, name, i + 1)

\* The value the next randomUUID() returns (NoUuid when the pool is used up)
NextUuid(mintedUuids) ==
    IF Uuids \ mintedUuids = {} THEN NoUuid
    ELSE CHOOSE uuid \in Uuids \ mintedUuids : \A u \in Uuids \ mintedUuids : uuid <= u

\* What a collection pass works on: the registry, the identifiers minted,
\* the task objects and the plugin's assignedUuids; exhausted is set when
\* randomUUID() was needed beyond the pool
PluginState(reg, mintedUuids, taskObjects, assigned, exhausted) ==
    [registry |-> reg, minted |-> mintedUuids, tasks |-> taskObjects,
     assignedUuids |-> assigned, exhausted |-> exhausted]

\* The tail of assignTestUuid: matcher.assignUuid, then the task's fields
\* and assignedUuids.push(uuid)
storeUuid(st, t, matchingFunction, r, fpOpts, exhausted) ==
    PluginState(r.registry, st.minted \cup {r.uuid},
                [st.tasks EXCEPT ![t] = [testUuid |-> r.uuid,
                                         testFingerprint |-> Fingerprint(matchingFunction, fpOpts)]],
                st.assignedUuids \cup {r.uuid},
                st.exhausted \/ exhausted)

\* assignTestUuid(test, testFunctions, filepath) for the task at position t
assignTestUuid(st, t, testFunctions, filepath, opts, fpOpts, now) ==
    IF st.tasks[t].testUuid # NoUuid THEN st
    ELSE IF FindByName(testFunctions, TaskName(t), 1) = 0 THEN st
    ELSE storeUuid(st, t, testFunctions[FindByName(testFunctions, TaskName(t), 1)],
                   assignUuid(st.registry,
                              testFunctions[FindByName(testFunctions, TaskName(t), 1)],
                              generateNodeId(filepath, TaskChain(t)), opts, fpOpts,
                              NextUuid(st.minted), now),
                   fpOpts,
                   /\ NextUuid(st.minted) = NoUuid
                   /\ findMatch(st.registry,
                                testFunctions[FindByName(testFunctions, TaskName(t), 1)],
                                generateNodeId(filepath, TaskChain(t)), opts, fpOpts).isNull)

\* processTasksRecursively(file, ...): the file task is a suite no extracted
\* function is named after (assignSuiteUuid leaves it alone); then its
\* children in order, from position t on.  nows[t] is Date.now() at task t.
RECURSIVE processTasksRecursively(_, _, _, _, _, _, _)
processTasksRecursively(st, t, testFunctions, filepath, opts, fpOpts, nows) ==
    IF t > MaxTasks THEN st
    ELSE processTasksRecursively(
             assignTestUuid(st, t, testFunctions, filepath, opts, fpOpts, nows[t]),
             t + 1, testFunctions, filepath, opts, fpOpts, nows)

\* What readFileSync(file.filepath) does: it returns a source or throws
ReadOutcomes == {"read", "threw"}

\* processFile that goes on with the tests as written when the read failed
processFile_IgnoresReadFailure(st, hasFilepath, readOutcome, testFunctions, opts, fpOpts, nows) ==
    IF ~hasFilepath
    THEN [state |-> st, outcome |-> "noFilepath"]
    ELSE IF readOutcome = "threw"
    THEN [state |-> processTasksRecursively(st, 1, DistinctBodies, FilePath, opts,
                                            fpOpts, nows),
          outcome |-> "readFailed"]
    ELSE [state |-> processTasksRecursively(st, 1, testFunctions, FilePath, opts,
                                            fpOpts, nows),
          outcome |-> "processed"]

\* processFile(file): the early return without a filepath, the catch
\* around the read, and the pass over the tasks
processFile(st, hasFilepath, readOutcome, testFunctions, opts, fpOpts, nows) ==
    IF ~hasFilepath
    THEN [state |-> st, outcome |-> "noFilepath"]
    ELSE IF readOutcome = "threw"
    THEN [state |-> st, outcome |-> "readFailed"]
    ELSE [state |-> processTasksRecursively(st, 1, testFunctions, FilePath, opts,
                                            fpOpts, nows),
          outcome |-> "processed"]

\* onFinished that saves first and cleans up afterwards
onFinished_SaveBeforeCleanup(reg, f, cfg, assigned, written) ==
    LET saved == IF cfg.autoSave THEN save(reg, f, written)
                 ELSE [file |-> f, registry |-> reg, outcome |-> "notSaved"]
        cleaned == IF cfg.autoCleanup THEN cleanup(reg, assigned)
                   ELSE [registry |-> reg, removed |-> 0]
    IN [registry |-> cleaned.registry, file |-> saved.file,
        removed |-> cleaned.removed, outcome |-> saved.outcome]

\* onFinished that cleans up whatever config.autoCleanup says
onFinished_AlwaysCleans(reg, f, cfg, assigned, written) ==
    LET cleaned == cleanup(reg, assigned)
        saved == IF cfg.autoSave THEN save(cleaned.registry, f, written)
                 ELSE [file |-> f, registry |-> cleaned.registry, outcome |-> "notSaved"]
    IN [registry |-> cleaned.registry, file |-> saved.file,
        removed |-> cleaned.removed, outcome |-> saved.outcome]

\* onFinished: registry.cleanup(assignedUuids) if autoCleanup, then
\* registry.save() if autoSave
onFinished(reg, f, cfg, assigned, written) ==
    LET cleaned == IF cfg.autoCleanup THEN cleanup(reg, assigned)
                   ELSE [registry |-> reg, removed |-> 0]
        saved == IF cfg.autoSave THEN save(cleaned.registry, f, written)
                 ELSE [file |-> f, registry |-> cleaned.registry, outcome |-> "notSaved"]
    IN [registry |-> cleaned.registry, file |-> saved.file,
        removed |-> cleaned.removed, outcome |-> saved.outcome]

\* A registry constructed on a path with no file, a matcher and a fingerprinter
Init ==
    /\ registry = << >>
    /\ pluginRegistry = << >>
    /\ minted = {}
    /\ clock = 0
    /\ options \in MatcherOptionsChoices
    /\ fpOptions \in FingerprintOptionsChoices
    /\ file = Missing
    /\ config = DefaultConfig
    /\ tasks = NoTasks
    /\ assignedUuids = {}
    /\ observed = NoneObserved
    /\ extraction = NoExtraction
    /\ reporter = DefaultReporter
    /\ other = << >>
    /\ last = Call("init", NoTestFunction, NoNodeId, {}, "none", NoUuid, 0, 0, NoNodeId)

\* findMatch that records the occurrence in the entry it matched, as
\* assignUuid does
FindMatch_UpdatesMatched ==
    \E testFunction \in TestFunctions, nodeId \in NodeIds :
        \E m \in {findMatch(registry, testFunction, nodeId, options, fpOptions)} :
            /\ registry' = IF m.isNull THEN registry
                           ELSE update(registry, m.uuid, clock, m.newHash, nodeId,
                                       Undefined)
            /\ last' = Call("findMatch", testFunction, nodeId, {}, MatchKind(m),
                            m.uuid, m.confidence, 0, NoNodeId)
            /\ UNCHANGED <<hostVars, pluginRegistry, minted, clock, options, fpOptions>>

\* matcher.findMatch(testFunction, nodeId)
FindMatch ==
    \E testFunction \in TestFunctions, nodeId \in NodeIds :
        \E m \in {findMatch(registry, testFunction, nodeId, options, fpOptions)} :
            /\ last' = Call("findMatch", testFunction, nodeId, {}, MatchKind(m),
                            m.uuid, m.confidence, 0, NoNodeId)
            /\ UNCHANGED <<hostVars, registry, pluginRegistry, minted, clock, options, fpOptions>>

\* matcher.getMatchDetails(testFunction, nodeId): last keeps the match and
\* the number of candidates returned
GetMatchDetails ==
    \E testFunction \in TestFunctions, nodeId \in NodeIds :
        \E d \in {getMatchDetails(registry, testFunction, nodeId, options, fpOptions)} :
            /\ last' = Call("getMatchDetails", testFunction, nodeId, {},
                            MatchKind(d.match), d.match.uuid, d.match.confidence,
                            Len(d.candidates), NoNodeId)
            /\ UNCHANGED <<hostVars, registry, pluginRegistry, minted, clock, options, fpOptions>>

\* matcher.assignUuid(testFunction, nodeId), the arguments drawn from the given sets
AssignUuidOf(testFunctions, nodeIds) ==
    \E testFunction \in testFunctions, nodeId \in nodeIds :
        \E m \in {findMatch(registry, testFunction, nodeId, options, fpOptions)} :
            \E now \in Times, uuid \in Uuids :
                /\ DateNow(now)
                \* randomUUID() is called by add only
                /\ IF m.isNull THEN RandomUuid(uuid) ELSE uuid = m.uuid
                /\ \E r \in {assignUuid(registry, testFunction, nodeId, options,
                                        fpOptions, uuid, now)} :
                       /\ registry' = r.registry
                       /\ minted' = minted \cup {r.uuid}
                       /\ last' = Call("assignUuid", testFunction, nodeId, {},
                                       MatchKind(m), r.uuid, m.confidence, 0,
                                       LastNodeIdOf(registry, r.uuid))
                /\ clock' = now
                /\ UNCHANGED <<hostVars, pluginRegistry, options, fpOptions>>

\* matcher.assignUuid(testFunction, nodeId)
AssignUuid == AssignUuidOf(TestFunctions, NodeIds)

\* cleanup that writes the file when it is done
Cleanup_AutoSaves ==
    \E active \in SUBSET Uuids :
        LET r == cleanup(registry, active) IN
        /\ registry' = r.registry
        /\ file' = save(r.registry, file, "written").file
        /\ last' = Call("cleanup", NoTestFunction, NoNodeId, active, "none",
                        NoUuid, 0, r.removed, NoNodeId)
        /\ UNCHANGED <<other, config, tasks, assignedUuids, observed, extraction, reporter, pluginRegistry, minted, clock,
                       options, fpOptions>>

\* registry.cleanup(activeUuids)
Cleanup ==
    \E active \in SUBSET Uuids :
        LET r == cleanup(registry, active) IN
        /\ registry' = r.registry
        /\ last' = Call("cleanup", NoTestFunction, NoNodeId, active, "none",
                        NoUuid, 0, r.removed, NoNodeId)
        /\ UNCHANGED <<hostVars, pluginRegistry, minted, clock, options, fpOptions>>

\* The host drives the matcher: assignUuid at collection, cleanup at run end
Next == FindMatch \/ AssignUuid \/ Cleanup

Spec == Init /\ [][Next]_vars

\* A matcher asked for matches, for match details and for identifiers
NextMatcher == FindMatch \/ GetMatchDetails \/ AssignUuid

SpecMatcher == Init /\ [][NextMatcher]_vars

(***************************************************************************)
(* The registry called directly, as its own tests do.                      *)
(***************************************************************************)
DefaultOptions ==
    [similarityThreshold |-> DefaultSimilarityThreshold,
     maxCandidates |-> DefaultMaxCandidates]

InitDefault == Init /\ options = DefaultOptions

\* registry.add(hash, nodeId, bodyLength), with the hash and body length of
\* one of the given test functions at one of the given node ids
AddOf(testFunctions, nodeIds) ==
    \E testFunction \in testFunctions, nodeId \in nodeIds,
       now \in Times, uuid \in Uuids :
        /\ DateNow(now)
        /\ RandomUuid(uuid)
        /\ registry' = add(registry, uuid, now, Fingerprint(testFunction, fpOptions),
                           nodeId, Len(testFunction.body))
        /\ minted' = minted \cup {uuid}
        /\ clock' = now
        /\ last' = Call("add", testFunction, nodeId, {}, "none", uuid, 0, 0, NoNodeId)
        /\ UNCHANGED <<hostVars, pluginRegistry, options, fpOptions>>

\* registry.add(hash, nodeId, bodyLength)
Add == AddOf(DirectTestFunctions, DirectNodeIds)

\* registry.update(uuid, hash, nodeId, bodyLength), for any uuid, with the hash
\* and body length of one of the given test functions at one of the given node ids
UpdateOf(testFunctions, nodeIds) ==
    \E uuid \in Uuids, testFunction \in testFunctions, nodeId \in nodeIds,
       now \in Times :
        \* Date.now() is called only when the entry exists
        /\ IF HasUuid(registry, uuid) THEN DateNow(now) ELSE now = clock
        /\ registry' = update(registry, uuid, now, Fingerprint(testFunction, fpOptions),
                              nodeId, Len(testFunction.body))
        /\ clock' = now
        /\ last' = Call("update", testFunction, nodeId, {}, "none", uuid, 0, 0,
                        LastNodeIdOf(registry, uuid))
        /\ UNCHANGED <<hostVars, pluginRegistry, minted, options, fpOptions>>

\* registry.update(uuid, hash, nodeId, bodyLength), for any uuid
Update == UpdateOf(DirectTestFunctions, DirectNodeIds)

NextRegistry == Add \/ Update \/ Cleanup \/ FindMatch

SpecRegistry == InitDefault /\ [][NextRegistry]_vars

(***************************************************************************)
(* The vitest-testid-plugin package's registry called directly.            *)
(***************************************************************************)
PluginAdd ==
    \E testFunction \in DirectTestFunctions, nodeId \in DirectNodeIds,
       now \in Times, uuid \in Uuids :
        /\ DateNow(now)
        /\ RandomUuid(uuid)
        /\ pluginRegistry' = pluginAdd(pluginRegistry, uuid, now,
                                       Fingerprint(testFunction, fpOptions),
                                       nodeId, Len(testFunction.body))
        /\ minted' = minted \cup {uuid}
        /\ clock' = now
        /\ last' = Call("add", testFunction, nodeId, {}, "none", uuid, 0, 0, NoNodeId)
        /\ UNCHANGED <<hostVars, registry, options, fpOptions>>

PluginUpdate ==
    \E uuid \in Uuids, testFunction \in DirectTestFunctions, nodeId \in DirectNodeIds,
       seenNow \in Times, stampNow \in Times :
        /\ IF HasUuid(pluginRegistry, uuid)
           THEN DateNow(seenNow) /\ stampNow >= seenNow /\ stampNow <= seenNow + 1
           ELSE seenNow = clock /\ stampNow = clock
        /\ pluginRegistry' = pluginUpdate(pluginRegistry, uuid, seenNow, stampNow,
                                          Fingerprint(testFunction, fpOptions),
                                          nodeId, Len(testFunction.body))
        /\ clock' = stampNow
        /\ last' = Call("update", testFunction, nodeId, {}, "none", uuid, 0, 0,
                        LastNodeIdOf(pluginRegistry, uuid))
        /\ UNCHANGED <<hostVars, registry, minted, options, fpOptions>>

PluginCleanup ==
    \E active \in SUBSET Uuids :
        LET r == cleanup(pluginRegistry, active) IN
        /\ pluginRegistry' = r.registry
        /\ last' = Call("cleanup", NoTestFunction, NoNodeId, active, "none",
                        NoUuid, 0, r.removed, NoNodeId)
        /\ UNCHANGED <<hostVars, registry, minted, clock, options, fpOptions>>

NextPluginRegistry == PluginAdd \/ PluginUpdate \/ PluginCleanup

SpecPluginRegistry == InitDefault /\ [][NextPluginRegistry]_vars

(***************************************************************************)
(* The registry and its backing file: operations in memory, save, a fresh  *)
(* registry constructed on the same path, and what else happens to the     *)
(* file.                                                                   *)
(***************************************************************************)
\* registry.save()
Save ==
    \E written \in WriteOutcomes :
        \E r \in {save(registry, file, written)} :
            /\ file' = r.file
            /\ registry' = r.registry
            /\ last' = Call("save", NoTestFunction, NoNodeId, {}, r.outcome,
                            NoUuid, 0, 0, NoNodeId)
            /\ UNCHANGED <<other, config, tasks, assignedUuids, observed, extraction, reporter, pluginRegistry, minted,
                           clock, options, fpOptions>>

\* new TestRegistry(registryPath) on the same path: the registry of the
\* model is the fresh one from here on
Construct ==
    \E r \in {load(file)} :
        /\ registry' = r.registry
        /\ last' = Call("construct", NoTestFunction, NoNodeId, {}, r.outcome,
                        NoUuid, 0, 0, NoNodeId)
        /\ UNCHANGED <<hostVars, pluginRegistry, minted, clock, options, fpOptions>>

\* Something else writes text to the file that is not JSON
\* (writeFileSync(path, '{ invalid json content') in the tests)
CorruptFile ==
    /\ file' = Corrupt
    /\ last' = Call("writeFile", NoTestFunction, NoNodeId, {}, "none",
                    NoUuid, 0, 0, NoNodeId)
    /\ UNCHANGED <<other, config, tasks, assignedUuids, observed, extraction, reporter, registry, pluginRegistry, minted,
                   clock, options, fpOptions>>

\* The file is removed (unlinkSync in the tests)
DeleteFile ==
    /\ file' = Missing
    /\ last' = Call("unlink", NoTestFunction, NoNodeId, {}, "none",
                    NoUuid, 0, 0, NoNodeId)
    /\ UNCHANGED <<other, config, tasks, assignedUuids, observed, extraction, reporter, registry, pluginRegistry, minted,
                   clock, options, fpOptions>>

\* The registry's calls around persistence: one test function, at a node id
\* of the matcher's and at one whose test name holds a quotation mark
PersistedTestFunctions == {t \in TestFunctions : t.body = <<"x", "+", "1">>}
PersistedNodeIds == {<<"f", ":", ":", "a", "_", "b">>, QuotedNodeId}

AddPersisted == AddOf(PersistedTestFunctions, PersistedNodeIds)
UpdatePersisted == UpdateOf(PersistedTestFunctions, PersistedNodeIds)
AssignUuidPersisted == AssignUuidOf(PersistedTestFunctions, PersistedNodeIds)

NextPersistence ==
    \/ AddPersisted \/ UpdatePersisted \/ Cleanup \/ AssignUuidPersisted
    \/ Save \/ Construct \/ CorruptFile \/ DeleteFile

SpecPersistence == InitDefault /\ [][NextPersistence]_vars

(***************************************************************************)
(* Two TestRegistry instances on one filePath: each has its own registry   *)
(* object, loaded by its constructor and written whole by its save.        *)
(***************************************************************************)
\* The keys of the file's JSON object
FileKeys(f) == IF f.decodable THEN {f.members[i].key : i \in 1..Len(f.members)} ELSE {}

\* new TestRegistry(registryPath), the second instance
OtherConstruct ==
    \E r \in {load(file)} :
        /\ other' = r.registry
        /\ last' = Call("other.construct", NoTestFunction, NoNodeId, {}, r.outcome,
                        NoUuid, 0, 0, NoNodeId)
        /\ UNCHANGED <<file, config, tasks, assignedUuids, observed, extraction,
                       reporter, registry, pluginRegistry, minted, clock, options,
                       fpOptions>>

\* add(hash, nodeId, bodyLength) on the second instance
OtherAdd ==
    \E testFunction \in PersistedTestFunctions, nodeId \in PersistedNodeIds,
       now \in Times, uuid \in Uuids :
        /\ DateNow(now)
        /\ RandomUuid(uuid)
        /\ other' = add(other, uuid, now, Fingerprint(testFunction, fpOptions),
                        nodeId, Len(testFunction.body))
        /\ minted' = minted \cup {uuid}
        /\ clock' = now
        /\ last' = Call("other.add", testFunction, nodeId, {}, "none", uuid, 0, 0,
                        NoNodeId)
        /\ UNCHANGED <<file, config, tasks, assignedUuids, observed, extraction,
                       reporter, registry, pluginRegistry, options, fpOptions>>

\* update(uuid, hash, nodeId, bodyLength) on the second instance, for any uuid
OtherUpdate ==
    \E uuid \in Uuids, testFunction \in PersistedTestFunctions,
       nodeId \in PersistedNodeIds, now \in Times :
        /\ IF HasUuid(other, uuid) THEN DateNow(now) ELSE now = clock
        /\ other' = update(other, uuid, now, Fingerprint(testFunction, fpOptions),
                           nodeId, Len(testFunction.body))
        /\ clock' = now
        /\ last' = Call("other.update", testFunction, nodeId, {}, "none", uuid, 0, 0,
                        LastNodeIdOf(other, uuid))
        /\ UNCHANGED <<file, config, tasks, assignedUuids, observed, extraction,
                       reporter, registry, pluginRegistry, minted, options, fpOptions>>

\* save() on the second instance; last keeps the keys the file had before
OtherSave ==
    \E written \in WriteOutcomes :
        \E r \in {save(other, file, written)} :
            /\ file' = r.file
            /\ other' = r.registry
            /\ last' = Call("other.save", NoTestFunction, NoNodeId, FileKeys(file),
                            r.outcome, NoUuid, 0, 0, NoNodeId)
            /\ UNCHANGED <<config, tasks, assignedUuids, observed, extraction,
                           reporter, registry, pluginRegistry, minted, clock, options,
                           fpOptions>>

NextInstances ==
    \/ AddPersisted \/ UpdatePersisted \/ Save \/ Construct
    \/ OtherAdd \/ OtherUpdate \/ OtherSave \/ OtherConstruct

SpecInstances == InitDefault /\ [][NextInstances]_vars

\* new TestMatcher(new TestFingerprinter({hashAlgorithm}), registry): the
\* registry is kept, the fingerprinter is another
NewMatcher ==
    /\ fpOptions' \in HashAlgorithmChoices
    /\ last' = Call("newMatcher", NoTestFunction, NoNodeId, {}, "none", NoUuid, 0, 0,
                    NoNodeId)
    /\ UNCHANGED <<hostVars, registry, pluginRegistry, minted, clock, options>>

\* new TestMatcher(fingerprinter, registry, {maxCandidates}): the registry is
\* kept, the matcher returns at most one candidate or the default number
CandidateOptionsChoices ==
    {[similarityThreshold |-> DefaultSimilarityThreshold, maxCandidates |-> n] :
        n \in {1, DefaultMaxCandidates}}

NewMatcherOptions ==
    /\ options' \in CandidateOptionsChoices
    /\ last' = Call("newMatcher", NoTestFunction, NoNodeId, {}, "none", NoUuid, 0, 0,
                    NoNodeId)
    /\ UNCHANGED <<hostVars, registry, pluginRegistry, minted, clock, fpOptions>>

\* Match details asked of matchers of either candidate limit
NextDetails == NewMatcherOptions \/ AssignUuid \/ GetMatchDetails \/ FindMatch

SpecDetails == InitDefault /\ [][NextDetails]_vars

\* A saved registry asked for matches and for match details
NextReadOnly == FindMatch \/ GetMatchDetails \/ AssignUuidPersisted \/ Save

SpecReadOnly == InitDefault /\ [][NextReadOnly]_vars

\* One registry under matchers of either hash algorithm
NextAlgorithms == NewMatcher \/ AssignUuid \/ FindMatch

SpecAlgorithms == InitDefault /\ [][NextAlgorithms]_vars

\* Every operation on one registry in memory, and save
NextLifecycle ==
    \/ FindMatch \/ AssignUuidPersisted \/ AddPersisted \/ UpdatePersisted
    \/ Save \/ Cleanup

SpecLifecycle == InitDefault /\ [][NextLifecycle]_vars

(***************************************************************************)
(* The plugin driven by vitest: collection passes and run ends, over       *)
(* processes that start on the file the last one left.                     *)
(***************************************************************************)
\* testIdPlugin(options) and configResolved in a process with no file yet
InitPlugin ==
    /\ registry = load(Missing).registry
    /\ pluginRegistry = << >>
    /\ minted = {}
    /\ clock = 0
    /\ options \in PluginOptionsChoices
    /\ fpOptions \in FingerprintOptionsChoices
    /\ file = Missing
    /\ config \in ConfigChoices
    /\ tasks = NoTasks
    /\ assignedUuids = {}
    /\ observed = NoneObserved
    /\ extraction = NoExtraction
    /\ reporter = DefaultReporter
    /\ other = << >>
    /\ last = Call("init", NoTestFunction, NoNodeId, {}, "none", NoUuid, 0, 0, NoNodeId)

\* The Date.now() values of one pass: one per task, never running backwards
PassTimes ==
    {nows \in [TaskIds -> Times] :
        /\ nows[1] >= clock /\ nows[1] <= clock + 1
        /\ \A t \in TaskIds \ {1} : nows[t] >= nows[t - 1] /\ nows[t] <= nows[t - 1] + 1}

\* onTaskUpdate(packs) with the pack of the file: its task objects are the
\* ones of the pass before or new ones, its filepath is set or not, its
\* source is read or not
OnTaskUpdate ==
    \E fresh \in BOOLEAN, hasFilepath \in BOOLEAN, readOutcome \in ReadOutcomes,
       testFunctions \in Sources, nows \in PassTimes :
        \E r \in {processFile(PluginState(registry, minted,
                                           IF fresh THEN NoTasks ELSE tasks,
                                           assignedUuids, FALSE),
                               hasFilepath, readOutcome, testFunctions, options,
                               fpOptions, nows)} :
            /\ ~r.state.exhausted
            /\ registry' = r.state.registry
            /\ minted' = r.state.minted
            /\ tasks' = r.state.tasks
            /\ assignedUuids' = r.state.assignedUuids
            /\ clock' = IF r.state.registry = registry THEN clock ELSE nows[MaxTasks]
            /\ last' = Call("onTaskUpdate", NoTestFunction, NoNodeId, assignedUuids,
                            r.outcome, NoUuid, 0, 0, NoNodeId)
            /\ UNCHANGED <<other, file, config, observed, extraction, reporter, pluginRegistry, options, fpOptions>>

\* onFinished(files): cleanup, save, and assignedUuids = []
OnFinished ==
    \E written \in WriteOutcomes :
        \E r \in {onFinished(registry, file, config, assignedUuids, written)} :
            /\ registry' = r.registry
            /\ file' = r.file
            /\ assignedUuids' = {}
            /\ last' = Call("onFinished", NoTestFunction, NoNodeId, assignedUuids,
                            r.outcome, NoUuid, 0, r.removed, NoNodeId)
            /\ UNCHANGED <<other, config, tasks, observed, extraction, reporter, pluginRegistry, minted, clock,
                           options, fpOptions>>

\* The next process: testIdPlugin(options) with the same options, then
\* configResolved constructs the registry on the file
ConfigResolved ==
    /\ registry' = load(file).registry
    /\ assignedUuids' = {}
    /\ tasks' = NoTasks
    /\ last' = Call("configResolved", NoTestFunction, NoNodeId, {}, load(file).outcome,
                    NoUuid, 0, 0, NoNodeId)
    /\ UNCHANGED <<other, file, config, observed, extraction, reporter, pluginRegistry, minted, clock, options,
                   fpOptions>>

NextPlugin == OnTaskUpdate \/ OnFinished \/ ConfigResolved

SpecPlugin == InitPlugin /\ [][NextPlugin]_vars

(***************************************************************************)
(* Fingerprinters: instances constructed with any options, each asked for  *)
(* fingerprints.                                                           *)
(***************************************************************************)
\* new TestFingerprinter(options): sha1 or sha256, names preserved or not
FingerprinterOptionsChoices ==
    [hashAlgorithm : {"sha1", "sha256"}, preserveVariableNames : BOOLEAN]

\* Bodies that differ in layout, in the name of a variable, or in a called name:
\*   f(x)   f( x )   x/*c*/+1   x+1//c
\*   var x=1   var y=1   var it=1   var $=1
\*   x.b()   x.c()
VariantBodies == {
    <<"f", "(", "x", ")">>,
    <<"f", "(", " ", "x", " ", ")">>,
    <<"x", "/", "*", "c", "*", "/", "+", "1">>,
    <<"x", "+", "1", "/", "/", "c">>,
    <<"v", "a", "r", " ", "x", "=", "1">>,
    <<"v", "a", "r", " ", "y", "=", "1">>,
    <<"v", "a", "r", " ", "i", "t", "=", "1">>,
    <<"v", "a", "r", " ", "$", "=", "1">>,
    <<"x", ".", "b", "(", ")">>,
    <<"x", ".", "c", "(", ")">>
}

\* The test functions fingerprinted, "a b" / y+1 (x+1 under another name),
\* and a test "t" of each variant body
FingerprintedFunctions ==
    AllTestFunctions \cup {[name |-> <<"a", " ", "b">>, body |-> <<"y", "+", "1">>]}
        \cup {[name |-> <<"t">>, body |-> b] : b \in VariantBodies}

\* fingerprintTest over the fingerprinted functions, computed once per
\* function and options
FingerprinterTable ==
    [o \in FingerprinterOptionsChoices |->
        [t \in FingerprintedFunctions |-> fingerprintTest(t, o)]]

InitFingerprinter ==
    /\ registry = << >>
    /\ pluginRegistry = << >>
    /\ minted = {}
    /\ clock = 0
    /\ options = DefaultOptions
    /\ fpOptions \in FingerprinterOptionsChoices
    /\ file = Missing
    /\ config = DefaultConfig
    /\ tasks = NoTasks
    /\ assignedUuids = {}
    /\ observed = NoneObserved
    /\ extraction = NoExtraction
    /\ reporter = DefaultReporter
    /\ other = << >>
    /\ last = Call("init", NoTestFunction, NoNodeId, {}, "none", NoUuid, 0, 0, NoNodeId)

\* new TestFingerprinter(options): another instance takes over
NewFingerprinter ==
    /\ observed.instance < MaxInstances
    /\ fpOptions' \in FingerprinterOptionsChoices
    /\ observed' = [observed EXCEPT !.instance = @ + 1]
    /\ last' = Call("newFingerprinter", NoTestFunction, NoNodeId, {}, "none", NoUuid,
                    0, 0, NoNodeId)
    /\ UNCHANGED <<other, file, config, tasks, assignedUuids, extraction, reporter, registry, pluginRegistry,
                   minted, clock, options>>

\* fingerprinter.fingerprintTest(testFunction)
FingerprintTest ==
    \E testFunction \in FingerprintedFunctions :
        \E o \in {Observation(observed.instance, fpOptions, testFunction.body,
                               FingerprinterTable[fpOptions][testFunction])} :
            /\ observed' = [observed EXCEPT
                               !.first = IF @ = NoObservation THEN o ELSE @,
                               !.latest = o]
            /\ last' = Call("fingerprintTest", testFunction, NoNodeId, {}, "none",
                            NoUuid, 0, 0, NoNodeId)
            /\ UNCHANGED <<other, file, config, tasks, assignedUuids, extraction, reporter, registry, pluginRegistry,
                           minted, clock, options, fpOptions>>

NextFingerprinter == NewFingerprinter \/ FingerprintTest

SpecFingerprinter == InitFingerprinter /\ [][NextFingerprinter]_vars

(***************************************************************************)
(* Extraction: a source, and extractTestFunctions applied to it.           *)
(***************************************************************************)
\* test, describe, test.only, it.skip, and a call that declares no test
Callees == {Identifier("test"), Identifier("describe"),
            MemberExpression("test", "only"), MemberExpression("it", "skip"),
            Identifier("expect")}

\* First arguments: 'a', 'b', and the number 1
NameArguments == {Argument("Literal", TRUE, <<"a">>, << >>),
                  Argument("Literal", TRUE, <<"b">>, << >>),
                  Argument("Literal", FALSE, <<"1">>, << >>)}

\* Second arguments holding the given calls in their body, where they have
\* one: () => x+1, function () {}, and the string 's'
SecondArguments(calls) ==
    {Argument("ArrowFunctionExpression", FALSE, <<"x", "+", "1">>, calls),
     Argument("FunctionExpression", FALSE, <<"{", "}">>, calls),
     Argument("Literal", TRUE, <<"s">>, << >>)}

ArgumentLists(calls) ==
    {<< >>} \cup {<<n>> : n \in NameArguments}
            \cup {<<n, f>> : n \in NameArguments, f \in SecondArguments(calls)}

\* Calls with nothing inside, and calls with one call inside their function
LeafCalls == {CallExpression(c, a) : c \in Callees, a \in ArgumentLists(<< >>)}
NestingCalls ==
    UNION {{CallExpression(c, a) : c \in Callees, a \in ArgumentLists(<<inner>>)} :
              inner \in LeafCalls}

RECURSIVE SeqsUpTo(_, _)
SeqsUpTo(S, n) ==
    IF n = 0 THEN {<< >>}
    ELSE SeqsUpTo(S, n - 1) \cup {Append(q, x) : q \in SeqsUpTo(S, n - 1), x \in S}

\* The sources: one acorn cannot parse, and programs of up to MaxCalls
\* calls or of one call with a call inside
SourceChoices ==
    {[parseable |-> FALSE, calls |-> << >>]}
        \cup {[parseable |-> TRUE, calls |-> q] : q \in SeqsUpTo(LeafCalls, MaxCalls)}
        \cup {[parseable |-> TRUE, calls |-> <<c>>] : c \in NestingCalls}

InitExtraction ==
    /\ registry = << >>
    /\ pluginRegistry = << >>
    /\ minted = {}
    /\ clock = 0
    /\ options = DefaultOptions
    /\ fpOptions \in FingerprintOptionsChoices
    /\ file = Missing
    /\ config = DefaultConfig
    /\ tasks = NoTasks
    /\ assignedUuids = {}
    /\ observed = NoneObserved
    /\ extraction \in {[source |-> src, called |-> FALSE, result |-> << >>] :
                            src \in SourceChoices}
    /\ reporter = DefaultReporter
    /\ other = << >>
    /\ last = Call("init", NoTestFunction, NoNodeId, {}, "none", NoUuid, 0, 0, NoNodeId)

\* fingerprinter.extractTestFunctions(source)
ExtractTestFunctions ==
    /\ ~extraction.called
    /\ extraction' = [extraction EXCEPT !.called = TRUE,
                                        !.result = extractTestFunctions(extraction.source)]
    /\ last' = Call("extractTestFunctions", NoTestFunction, NoNodeId, {}, "none",
                    NoUuid, 0, 0, NoNodeId)
    /\ UNCHANGED <<other, file, config, tasks, assignedUuids, observed, reporter, registry,
                   pluginRegistry, minted, clock, options, fpOptions>>

NextExtraction == ExtractTestFunctions

SpecExtraction == InitExtraction /\ [][NextExtraction]_vars

(***************************************************************************)
(* UuidReporter: what onTaskUpdate collects.                               *)
(***************************************************************************)
\* The ids of the tasks reported
TaskKeys == {"t1", "t2"}

\* The key of a result: testUuid || taskId
ResultKey(testUuid, taskId) ==
    IF testUuid # NoUuid THEN [uuid |-> testUuid, taskId |-> ""]
    ELSE [uuid |-> NoUuid, taskId |-> taskId]

\* A pack [taskId, taskResult]: the result is missing, or a task of some
\* type with or without a testUuid
NoTaskResult == [present |-> FALSE, type |-> "", testUuid |-> NoUuid]
TaskResults ==
    {NoTaskResult}
        \cup [present : {TRUE}, type : {"test", "suite"}, testUuid : {NoUuid} \cup Uuids]
Packs == [taskId : TaskKeys, task : TaskResults]

\* this.results.set(key, value) on a Map kept in insertion order
RECURSIVE MapSet(_, _)
MapSet(results, entry) ==
    IF results = << >> THEN <<entry>>
    ELSE IF Head(results).key = entry.key THEN <<entry>> \o Tail(results)
    ELSE <<Head(results)>> \o MapSet(Tail(results), entry)

\* this.results.set(key, uuidResult).  taskId and taskType are not fields of
\* the result the reporter stores: they record which task the result was
\* made from.
setResult(rep, pack) ==
    [rep EXCEPT !.results =
        MapSet(@, [key |-> ResultKey(pack.task.testUuid, pack.taskId),
                   testUuid |-> pack.task.testUuid,
                   taskId |-> pack.taskId,
                   taskType |-> pack.task.type])]

\* One round of the loop of onTaskUpdate
collect(rep, pack) ==
    IF pack.task.present /\ pack.task.type = "test"
    THEN IF rep.onlyUuidTests /\ pack.task.testUuid = NoUuid
         THEN rep
         ELSE setResult(rep, pack)
    ELSE rep

\* onTaskUpdate that collects a task whatever its type
RECURSIVE reporterOnTaskUpdate_AnyType(_, _)
reporterOnTaskUpdate_AnyType(rep, packs) ==
    IF packs = << >> THEN rep
    ELSE reporterOnTaskUpdate_AnyType(
             IF Head(packs).task.present
                  /\ ~(rep.onlyUuidTests /\ Head(packs).task.testUuid = NoUuid)
             THEN setResult(rep, Head(packs))
             ELSE rep,
             Tail(packs))

\* UuidReporter.onTaskUpdate(packs)
RECURSIVE reporterOnTaskUpdate(_, _)
reporterOnTaskUpdate(rep, packs) ==
    IF packs = << >> THEN rep
    ELSE reporterOnTaskUpdate(collect(rep, Head(packs)), Tail(packs))

\* new UuidReporter(options), onlyUuidTests on or off
InitReporter ==
    /\ registry = << >>
    /\ pluginRegistry = << >>
    /\ minted = {}
    /\ clock = 0
    /\ options = DefaultOptions
    /\ fpOptions \in FingerprintOptionsChoices
    /\ file = Missing
    /\ config = DefaultConfig
    /\ tasks = NoTasks
    /\ assignedUuids = {}
    /\ observed = NoneObserved
    /\ extraction = NoExtraction
    /\ reporter \in [onlyUuidTests : BOOLEAN, results : {<< >>}]
    /\ other = << >>
    /\ last = Call("init", NoTestFunction, NoNodeId, {}, "none", NoUuid, 0, 0, NoNodeId)

\* The packs of a call that the reporter did not collect
NotCollected(rep, packs) ==
    Cardinality({i \in 1..Len(packs) :
                    \/ ~packs[i].task.present
                    \/ packs[i].task.type # "test"
                    \/ rep.onlyUuidTests /\ packs[i].task.testUuid = NoUuid})

\* reporter.onTaskUpdate(packs)
ReporterOnTaskUpdate ==
    \E packs \in SeqsUpTo(Packs, MaxPacks) :
        /\ reporter' = reporterOnTaskUpdate(reporter, packs)
        /\ last' = Call("reporter.onTaskUpdate", NoTestFunction, NoNodeId, {}, "none",
                        NoUuid, 0, NotCollected(reporter, packs), NoNodeId)
        /\ UNCHANGED <<other, file, config, tasks, assignedUuids, observed, extraction,
                       registry, pluginRegistry, minted, clock, options, fpOptions>>

\* reporter.onInit(): this.results.clear()
ReporterOnInit ==
    /\ reporter' = [reporter EXCEPT !.results = << >>]
    /\ last' = Call("reporter.onInit", NoTestFunction, NoNodeId, {}, "none", NoUuid,
                    0, 0, NoNodeId)
    /\ UNCHANGED <<other, file, config, tasks, assignedUuids, observed, extraction,
                   registry, pluginRegistry, minted, clock, options, fpOptions>>

NextReporter == ReporterOnTaskUpdate \/ ReporterOnInit

SpecReporter == InitReporter /\ [][NextReporter]_vars

(***************************************************************************)
(* Properties.                                                             *)
(***************************************************************************)
RegistryUuids(reg) == {reg[i].uuid : i \in 1..Len(reg)}
RegistryEntries(reg) == {reg[i] : i \in 1..Len(reg)}
EntryOf(reg, uuid) == reg[findByUuid(reg, uuid)]

\* The composite score of the occurrence of the last call against entry e
ScoreOfLast(call, e) == calculateSimilarity(call.testFunction, e, call.nodeId)

\* No entry has the fingerprint of the occurrence of the call
ExactMiss(reg, call) ==
    \A i \in 1..Len(reg) : reg[i].hash # Fingerprint(call.testFunction, fpOptions)

\* C1: when some entry has the fingerprint of the occurrence, assignUuid
\* returns that entry's identifier, whatever the occurrence's name and node
\* id are, and the number of entries stays the same.
C1_ExactHitReturnsEntryUuid ==
    [][last'.op = "assignUuid" =>
        \A i \in 1..Len(registry) :
            registry[i].hash = Fingerprint(last'.testFunction, fpOptions) =>
                /\ last'.uuid = registry[i].uuid
                /\ size(registry') = size(registry)]_vars

\* An exact hit by an occurrence whose name is not the one the entry's
\* location suggests, at a node id other than the entry's
C1_Witness ==
    /\ last.op = "assignUuid"
    /\ last.kind = "exact"
    /\ last.before # NoNodeId
    /\ last.before # last.nodeId
    /\ extractTestNameFromNodeId(last.before).value # last.testFunction.name

\* C2: no two entries of the registry have the same fingerprint.
C2_FingerprintsUnique ==
    \A i, j \in 1..Len(registry) :
        registry[i].hash = registry[j].hash => i = j

\* Two entries, the last call an assignUuid that rewrote an entry's hash
C2_Witness ==
    /\ Len(registry) >= 2
    /\ last.op = "assignUuid"
    /\ last.kind = "fuzzy"
    /\ clock > 0

\* C3: after assignUuid(occurrence, L) returned U, the registry has exactly
\* one entry for U, its lastNodeId is L and its hash is the occurrence's
\* fingerprint; and assigning the same occurrence again, at whatever node
\* id, returns the same U.
C3_AssignedEntryReportsLocation ==
    [][last'.op = "assignUuid" =>
        /\ Cardinality({i \in 1..Len(registry') : registry'[i].uuid = last'.uuid}) = 1
        /\ EntryOf(registry', last'.uuid).lastNodeId = last'.nodeId
        /\ EntryOf(registry', last'.uuid).hash = Fingerprint(last'.testFunction, fpOptions)
        /\ (last.op = "assignUuid" /\ last.testFunction = last'.testFunction)
              => last'.uuid = last.uuid]_vars

\* The same occurrence assigned again at another node id (a moved test)
C3_Witness ==
    /\ last.op = "assignUuid"
    /\ last.kind \in {"exact", "fuzzy"}
    /\ last.before # NoNodeId
    /\ last.before # last.nodeId
    /\ EntryOf(registry, last.uuid).lastNodeId = last.nodeId
    /\ EntryOf(registry, last.uuid).createdAt < EntryOf(registry, last.uuid).lastSeen

\* No entry has the occurrence's fingerprint or reaches the threshold
NoCandidate(reg, call, opts) ==
    /\ ExactMiss(reg, call)
    /\ \A i \in 1..Len(reg) : ~AtLeastThreshold(ScoreOfLast(call, reg[i]), opts)

\* C4: with no entry of the occurrence's fingerprint and none at or above
\* the threshold, findMatch returns null and assignUuid appends one entry
\* under an identifier no entry had, with createdAt = lastSeen, and leaves
\* the entries that were there as they were.
C4_NoMatchAddsOneEntry ==
    [][/\ (last'.op = "findMatch" /\ NoCandidate(registry, last', options))
            => (last'.kind = "none" /\ last'.uuid = NoUuid)
       /\ (last'.op = "assignUuid" /\ NoCandidate(registry, last', options))
            => /\ last'.kind = "none"
               /\ size(registry') = size(registry) + 1
               /\ SubSeq(registry', 1, Len(registry)) = registry
               /\ last'.uuid \notin RegistryUuids(registry)
               /\ registry'[Len(registry')].uuid = last'.uuid
               /\ registry'[Len(registry')].createdAt = registry'[Len(registry')].lastSeen]_vars

\* A new identifier allocated next to an entry that was already there, at a
\* time other than 0
C4_Witness ==
    /\ last.op = "assignUuid"
    /\ last.kind = "none"
    /\ Len(registry) >= 2
    /\ registry[Len(registry)].uuid = last.uuid
    /\ registry[Len(registry)].createdAt > 0

\* C5: on an exact miss findMatch returns a match exactly when some entry
\* scores at or above the threshold; the match is not exact, it is an entry
\* of the highest score and its confidence is that score.
C5_FuzzyMatchIsBestCandidate ==
    (last.op = "findMatch" /\ ExactMiss(registry, last)) =>
        /\ (last.kind # "none") <=>
              (\E i \in 1..Len(registry) :
                  AtLeastThreshold(ScoreOfLast(last, registry[i]), options))
        /\ last.kind # "none" =>
              /\ last.kind = "fuzzy"
              /\ \E i \in 1..Len(registry) :
                    /\ registry[i].uuid = last.uuid
                    /\ last.confidence = ScoreOfLast(last, registry[i])
                    /\ \A j \in 1..Len(registry) :
                          ScoreOfLast(last, registry[j]) <= ScoreOfLast(last, registry[i])
              /\ AtLeastThreshold(last.confidence, options)

\* Two entries at or above the threshold with different scores, the second
\* one the better
C5_Witness ==
    /\ last.op = "findMatch"
    /\ last.kind = "fuzzy"
    /\ Len(registry) = 2
    /\ registry[2].uuid = last.uuid
    /\ AtLeastThreshold(ScoreOfLast(last, registry[1]), options)
    /\ ScoreOfLast(last, registry[1]) < ScoreOfLast(last, registry[2])

\* C6: when some entry has the occurrence's fingerprint, findMatch returns
\* the first such entry in registry order, as an exact match of confidence 1.0.
C6_ExactMatchIsFirstWithHash ==
    (last.op = "findMatch" /\ ~ExactMiss(registry, last)) =>
        /\ last.kind = "exact"
        /\ last.confidence = ScoreOne
        /\ \E i \in 1..Len(registry) :
              /\ registry[i].uuid = last.uuid
              /\ registry[i].hash = Fingerprint(last.testFunction, fpOptions)
              /\ \A j \in 1..(i - 1) :
                    registry[j].hash # Fingerprint(last.testFunction, fpOptions)

\* Two entries of the same fingerprint (added directly), the first returned,
\* although the second is the one at the occurrence's node id
C6_Witness ==
    /\ last.op = "findMatch"
    /\ last.kind = "exact"
    /\ Len(registry) = 2
    /\ registry[1].hash = registry[2].hash
    /\ registry[1].uuid = last.uuid
    /\ registry[2].lastNodeId = last.nodeId
    /\ registry[1].lastNodeId # last.nodeId

\* The occurrence of the call sits at the lastNodeId of entry i and is named
\* as that node id suggests
SameLocationAndName(reg, call, i) ==
    /\ reg[i].lastNodeId = call.nodeId
    /\ ~extractTestNameFromNodeId(call.nodeId).isNull
    /\ extractTestNameFromNodeId(call.nodeId).value = call.testFunction.name

C8_AssignedEntryHasBodyLength ==
    last.op = "assignUuid" =>
        EntryOf(registry, last.uuid).bodyLength = Len(last.testFunction.body)

\* C9: the creation timestamp of an entry never changes while the entry is
\* in the registry (createdAt; timestamp in the vitest-testid-plugin package).
C9_CreationTimestampNeverChanges ==
    [][/\ \A i \in 1..Len(registry), j \in 1..Len(registry') :
              registry[i].uuid = registry'[j].uuid
                  => registry'[j].createdAt = registry[i].createdAt
       /\ \A i \in 1..Len(pluginRegistry), j \in 1..Len(pluginRegistry') :
              pluginRegistry[i].uuid = pluginRegistry'[j].uuid
                  => pluginRegistry'[j].timestamp = pluginRegistry[i].timestamp]_vars

\* C10: cleanup(active) removes the entries whose uuid is not in active and
\* no other, leaves the others as they were, and returns the number removed.
C10_CleanupRemovesInactiveOnly ==
    [][last'.op = "cleanup" =>
        /\ RegistryEntries(registry') =
              {e \in RegistryEntries(registry) : e.uuid \in last'.active}
        /\ Len(registry') = Cardinality(RegistryEntries(registry'))
        /\ last'.removed = size(registry) - size(registry')
        /\ last'.removed =
              Cardinality({e \in RegistryEntries(registry) : e.uuid \notin last'.active})]_vars

\* A cleanup that removed an entry and kept another
C10_Witness ==
    /\ last.op = "cleanup"
    /\ last.removed = 1
    /\ Len(registry) = 1
    /\ registry[1].uuid \in last.active

\* C11: cleanup(active) called twice in a row with the same active set: the
\* second call leaves the registry as the first left it and returns 0.
C11_CleanupIsIdempotent ==
    [][(last.op = "cleanup" /\ last'.op = "cleanup" /\ last'.active = last.active)
          => (registry' = registry /\ last'.removed = 0)]_vars

\* A cleanup that removed nothing, after one that removed an entry which
\* the active set of this one does not hold either
C11_Witness ==
    /\ last.op = "cleanup"
    /\ last.removed = 0
    /\ Len(registry) = 1
    /\ registry[1].uuid \in last.active
    /\ (minted \ RegistryUuids(registry)) # {}
    /\ (minted \ RegistryUuids(registry)) \cap last.active = {}

\* C12: a registry constructed on the path right after a save() that wrote
\* the file holds the same identifiers with the same field values, in the
\* same order, and saving it writes the content the file has.
C12_PersistenceRoundTrips ==
    [][(last.op = "save" /\ last.kind = "written" /\ last'.op = "construct")
          => /\ last'.kind = "loaded"
             /\ registry' = registry
             /\ save(registry', file', "written").file = file']_vars

\* Two entries loaded from the file: one that assignUuid made (no
\* bodyLength) and updated later, one at the node id with the quotation mark
C12_Witness ==
    /\ last.op = "construct"
    /\ last.kind = "loaded"
    /\ Len(registry) = 2
    /\ \E i, j \in 1..2 :
          /\ registry[i].bodyLength = Undefined
          /\ registry[i].createdAt < registry[i].lastSeen
          /\ registry[j].bodyLength # Undefined
          /\ registry[j].lastNodeId = QuotedNodeId

\* C13: constructing a registry never throws; on a missing file and on a
\* file that cannot be decoded (a warning) the registry is empty, and an add
\* made next creates the first entry.
C13_ConstructNeverThrows ==
    [][/\ last'.op = "construct" =>
            /\ last'.kind # "threw"
            /\ ~file.exists => (last'.kind = "missing" /\ registry' = << >>)
            /\ (file.exists /\ ~file.decodable)
                  => (last'.kind = "warned" /\ registry' = << >>)
       /\ (last.op = "construct" /\ last.kind \in {"missing", "warned"}
              /\ last'.op = "add")
            => /\ size(registry') = 1
               /\ registry'[1].uuid = last'.uuid
               /\ findByHash(registry',
                             Fingerprint(last'.testFunction, fpOptions)) = 1]_vars

\* A registry constructed on a file that cannot be decoded, by a process
\* that had entries before
C13_Witness ==
    /\ last.op = "construct"
    /\ last.kind = "warned"
    /\ file = Corrupt
    /\ registry = << >>
    /\ minted # {}

\* C14: a save() whose write fails does not throw and leaves the registry
\* in memory as it was.
C14_FailedSaveKeepsRegistry ==
    [][(last'.op = "save" /\ last'.kind # "written")
          => (last'.kind = "failed" /\ registry' = registry)]_vars

\* A failed save of a registry that has an entry the file does not hold
C14_Witness ==
    /\ last.op = "save"
    /\ last.kind = "failed"
    /\ Len(registry) >= 1
    /\ ~file.decodable \/ Len(file.members) < Len(registry)

\* C15: add, update, cleanup and assignUuid leave the file as it is.
C15_OnlySaveWritesTheFile ==
    [][last'.op \in {"add", "update", "cleanup", "assignUuid"} => file' = file]_vars

\* An assignUuid that moved an entry in memory while the file holds the
\* registry as it was saved before
C15_Witness ==
    /\ last.op = "assignUuid"
    /\ file.exists
    /\ file.decodable
    /\ Len(file.members) >= 1
    /\ Len(parse(file.members)) = Len(registry)
    /\ \E i \in 1..Len(registry) :
          /\ parse(file.members)[i].uuid = registry[i].uuid
          /\ parse(file.members)[i].lastNodeId # registry[i].lastNodeId

\* C16: update(uuid, ...) with a uuid the registry does not have changes
\* nothing: no entry is created and every entry stays as it was.
C16_UpdateOfAbsentUuidIsNoOp ==
    [][(last'.op = "update" /\ ~HasUuid(registry, last'.uuid))
          => registry' = registry]_vars

\* An update of a uuid that is not in a registry that has an entry
C16_Witness ==
    /\ last.op = "update"
    /\ ~HasUuid(registry, last.uuid)
    /\ Len(registry) >= 1

\* C17: a run end with autoCleanup and autoSave whose write succeeds leaves
\* in the file exactly the entries of the identifiers assigned to a task in
\* the run: the orphaned entries are removed before the registry is saved.
C17_RunEndPersistsAssignedOnly ==
    [][(last'.op = "onFinished" /\ config.autoCleanup /\ config.autoSave
          /\ last'.kind = "written")
          => /\ file'.exists /\ file'.decodable
             /\ RegistryUuids(parse(file'.members)) = assignedUuids
             /\ parse(file'.members)
                  = SelectSeq(registry, LAMBDA e : e.uuid \in assignedUuids)]_vars

\* A run end that removed an orphaned entry and saved the one entry
\* assigned in the run
C17_Witness ==
    /\ last.op = "onFinished"
    /\ last.kind = "written"
    /\ config.autoCleanup /\ config.autoSave
    /\ last.removed >= 1
    /\ Len(registry) >= 1
    /\ file.decodable
    /\ parse(file.members) = registry
    /\ RegistryUuids(registry) = last.active

\* C18: two test tasks of the file that hold a testUuid and different
\* testFingerprint values hold different testUuid values.
C18_DifferentFingerprintsDifferentUuids ==
    \A t1, t2 \in TaskIds :
        (/\ t1 # t2
         /\ tasks[t1].testUuid # NoUuid
         /\ tasks[t2].testUuid # NoUuid
         /\ tasks[t1].testFingerprint # tasks[t2].testFingerprint)
            => tasks[t1].testUuid # tasks[t2].testUuid

\* C19: an onTaskUpdate whose file has no filepath or whose source cannot
\* be read ends normally; no task gets a testUuid and the registry and
\* assignedUuids are as they were.
C19_UnreadableFileAssignsNothing ==
    [][(last'.op = "onTaskUpdate" /\ last'.kind \in {"noFilepath", "readFailed"})
          => /\ registry' = registry
             /\ assignedUuids' = assignedUuids
             /\ minted' = minted
             /\ \A t \in TaskIds :
                   tasks'[t].testUuid # NoUuid => tasks'[t] = tasks[t]]_vars

\* A pass over new task objects whose source could not be read, in a
\* process whose registry has an entry
C19_Witness ==
    /\ last.op = "onTaskUpdate"
    /\ last.kind = "readFailed"
    /\ Len(registry) >= 1
    /\ \A t \in TaskIds : tasks[t].testUuid = NoUuid

RECURSIVE Lex(_)
Lex(s) ==
    IF s = << >> THEN << >>
    ELSE IF Head(s) \in WhiteSpace THEN Lex(Tail(s))
    ELSE IF Len(s) >= 2 /\ s[1] = "/" /\ s[2] = "*" /\ FindClose(s, 3) > 0
         THEN Lex(SubSeq(s, FindClose(s, 3) + 2, Len(s)))
    ELSE IF Len(s) >= 2 /\ s[1] = "/" /\ s[2] = "/" THEN Lex(FromLineEnd(s))
    ELSE IF Head(s) \in IdChar
         THEN <<SubSeq(s, 1, RunLen(s, IdChar))>>
                  \o Lex(SubSeq(s, RunLen(s, IdChar) + 1, Len(s)))
    ELSE IF Head(s) \in OperatorChar
         THEN <<SubSeq(s, 1, RunLen(s, OperatorChar))>>
                  \o Lex(SubSeq(s, RunLen(s, OperatorChar) + 1, Len(s)))
    ELSE <<<<Head(s)>>>> \o Lex(Tail(s))

\* The tokens without the statement terminators that end the body
RECURSIVE Statements(_)
Statements(tokens) ==
    IF tokens # << >> /\ tokens[Len(tokens)] \in {<<";">>, <<",">>}
    THEN Statements(SubSeq(tokens, 1, Len(tokens) - 1))
    ELSE tokens

Keywords == {<<"v", "a", "r">>, <<"l", "e", "t">>, <<"c", "o", "n", "s", "t">>,
             <<"r", "e", "t", "u", "r", "n">>, <<"i", "f">>, <<"e", "l", "s", "e">>,
             <<"t", "r", "u", "e">>, <<"f", "a", "l", "s", "e">>, <<"n", "u", "l", "l">>}

\* Token i names a local variable: an identifier that is no keyword, no
\* member (after a dot) and not called (before a parenthesis)
IsVariable(tokens, i) ==
    /\ tokens[i][1] \in IdStart
    /\ tokens[i] \notin Keywords
    /\ ~(i > 1 /\ tokens[i - 1] = <<".">>)
    /\ ~(i < Len(tokens) /\ tokens[i + 1] = <<"(">>)

\* The two token sequences are equal up to a one-to-one renaming of the
\* local variables
RenamedOnly(t1, t2) ==
    /\ Len(t1) = Len(t2)
    /\ \A i \in 1..Len(t1) :
          /\ IsVariable(t1, i) <=> IsVariable(t2, i)
          /\ ~IsVariable(t1, i) => t1[i] = t2[i]
    /\ \A i, j \in 1..Len(t1) :
          (IsVariable(t1, i) /\ IsVariable(t1, j))
              => ((t1[i] = t1[j]) <=> (t2[i] = t2[j]))

\* The body with every run of identifier characters replaced by one mark:
\* what is left is the layout, the comments and the punctuation
RECURSIVE Skeleton(_)
Skeleton(s) ==
    IF s = << >> THEN << >>
    ELSE IF Head(s) \in IdChar
         THEN <<"#">> \o Skeleton(SubSeq(s, RunLen(s, IdChar) + 1, Len(s)))
         ELSE <<Head(s)>> \o Skeleton(Tail(s))

\* The first and the latest call were made with the same options
SameOptionsObserved ==
    /\ observed.latest # NoObservation
    /\ observed.first.options = observed.latest.options

\* C21: two bodies with the same tokens (they differ in comments and white
\* space only) get the same fingerprint.
C21_LayoutDoesNotChangeFingerprint ==
    (SameOptionsObserved /\ Lex(observed.first.body) = Lex(observed.latest.body))
        => observed.first.digest = observed.latest.digest

\* C22: two bodies laid out alike and equal up to a renaming of local
\* variables get the same fingerprint when variable names are not
\* preserved, and different fingerprints when they are preserved and a
\* name differs.
C22_RenamingDoesNotChangeFingerprint ==
    (SameOptionsObserved
       /\ Skeleton(observed.first.body) = Skeleton(observed.latest.body)
       /\ RenamedOnly(Lex(observed.first.body), Lex(observed.latest.body)))
        => IF ~observed.latest.options.preserveVariableNames
           THEN observed.first.digest = observed.latest.digest
           ELSE Lex(observed.first.body) # Lex(observed.latest.body)
                   => observed.first.digest # observed.latest.digest

\* C23: two bodies that are not equal up to layout, final terminators and
\* a renaming of local variables get different fingerprints.
C23_ContentChangesFingerprint ==
    (SameOptionsObserved
       /\ ~RenamedOnly(Statements(Lex(observed.first.body)),
                       Statements(Lex(observed.latest.body))))
        => observed.first.digest # observed.latest.digest

\* A call that declares a test: test, it or describe, plain or qualified
\* by skip, only or todo
IsTestDeclaration(node) ==
    \/ node.callee.type = "Identifier" /\ node.callee.name \in {"test", "it", "describe"}
    \/ /\ node.callee.type = "MemberExpression"
       /\ node.callee.object \in {"test", "it", "describe"}
       /\ node.callee.property \in {"skip", "only", "todo"}

\* Its first argument is a literal string and its second a function expression
HasDeclarationShape(node) ==
    /\ Len(node.arguments) >= 2
    /\ node.arguments[1].type = "Literal" /\ node.arguments[1].isString
    /\ node.arguments[2].type \in {"FunctionExpression", "ArrowFunctionExpression"}

RECURSIVE RecordsOf(_)
RecordsOf(nodes) ==
    IF nodes = << >> THEN << >>
    ELSE <<[name |-> Head(nodes).arguments[1].text,
            body |-> Head(nodes).arguments[2].text]>> \o RecordsOf(Tail(nodes))

\* C24: extractTestFunctions returns the empty sequence for a source that
\* cannot be parsed, and otherwise one record for each test-declaration
\* call of the declaration shape, in source order, and none for any other call.
C24_ExtractionTakesShapedDeclarations ==
    extraction.called
        => extraction.result
             = IF ~extraction.source.parseable THEN << >>
               ELSE RecordsOf(SelectSeq(walkAst(extraction.source.calls),
                                        LAMBDA node : IsTestDeclaration(node)
                                                         /\ HasDeclarationShape(node)))

\* C25: every result the reporter holds was made from a task of type
\* 'test', and with onlyUuidTests every result has a testUuid.
C25_ReporterCollectsTestsOnly ==
    \A i \in 1..Len(reporter.results) :
        /\ reporter.results[i].taskType = "test"
        /\ reporter.onlyUuidTests => reporter.results[i].testUuid # NoUuid

\* A reporter with onlyUuidTests that holds a result after a call in which
\* it passed over a pack
C25_Witness ==
    /\ last.op = "reporter.onTaskUpdate"
    /\ last.removed >= 1
    /\ reporter.onlyUuidTests
    /\ Len(reporter.results) >= 1

\* C26: a fuzzy match goes to the entry inserted first (the identifier
\* minted first) among the entries that score what the match scores,
\* whichever of them was updated since.
C26_TieGoesToFirstInserted ==
    (last.op = "findMatch" /\ last.kind = "fuzzy") =>
        /\ \E i \in 1..Len(registry) :
              /\ registry[i].uuid = last.uuid
              /\ ScoreOfLast(last, registry[i]) = last.confidence
        /\ \A i \in 1..Len(registry) :
              ScoreOfLast(last, registry[i]) = last.confidence
                  => last.uuid <= registry[i].uuid

\* Two entries tie and the one inserted first, updated after the other was
\* inserted, is returned
C26_Witness ==
    /\ last.op = "findMatch"
    /\ last.kind = "fuzzy"
    /\ Len(registry) = 2
    /\ ScoreOfLast(last, registry[1]) = last.confidence
    /\ ScoreOfLast(last, registry[2]) = last.confidence
    /\ last.uuid = registry[1].uuid
    /\ registry[1].uuid < registry[2].uuid
    /\ registry[1].lastSeen > registry[2].createdAt

\* The similarity of the location strings and of the names of a call and an
\* entry, each out of SimScale
LocationSimilarity(call, e) ==
    calculateLevenshteinSimilarity(call.nodeId, e.lastNodeId)

NameSimilarity(call, e) ==
    LET existing == extractTestNameFromNodeId(e.lastNodeId)
    IN calculateLevenshteinSimilarity(
           call.testFunction.name,
           IF existing.isNull \/ existing.value = << >>
           THEN call.testFunction.name ELSE existing.value)

BodyLengthDelta(call, e) ==
    IF Len(call.testFunction.body) >= e.bodyLength
    THEN Len(call.testFunction.body) - e.bodyLength
    ELSE e.bodyLength - Len(call.testFunction.body)

\* C28: of two occurrences fuzzy-matched one after the other to the same
\* entry, with equal location and equal name similarities to it, the one
\* whose body length is closer to the entry's recorded bodyLength gets the
\* strictly higher score.
C28_CloserBodyLengthScoresHigher ==
    [][(/\ last.op = "findMatch" /\ last.kind = "fuzzy"
        /\ last'.op = "findMatch" /\ last'.kind = "fuzzy"
        /\ last'.uuid = last.uuid
        /\ registry' = registry)
       => \A i \in 1..Len(registry) :
              (/\ registry[i].uuid = last.uuid
               /\ registry[i].bodyLength # Undefined
               /\ LocationSimilarity(last', registry[i])
                     = LocationSimilarity(last, registry[i])
               /\ NameSimilarity(last', registry[i]) = NameSimilarity(last, registry[i])
               /\ BodyLengthDelta(last', registry[i]) < BodyLengthDelta(last, registry[i]))
              => last'.confidence > last.confidence]_vars

\* The entries the file holds are those of reg, and no other key
FileHolds(reg) ==
    /\ file.exists /\ file.decodable
    /\ parse(file.members) = reg
    /\ FileKeys(file) = {reg[i].uuid : i \in 1..Len(reg)}

\* C29: whichever of two instances on one file saves, the file then holds
\* exactly that instance's in-memory entries: an entry only the other
\* instance holds is not in the file, whether or not it was there before.
C29_LastWriterWins ==
    /\ (last.op = "save" /\ last.kind = "written") =>
          /\ FileHolds(registry)
          /\ \A i \in 1..Len(other) :
                (\A j \in 1..Len(registry) : registry[j].uuid # other[i].uuid)
                    => other[i].uuid \notin FileKeys(file)
    /\ (last.op = "other.save" /\ last.kind = "written") =>
          /\ FileHolds(other)
          /\ \A i \in 1..Len(registry) :
                (\A j \in 1..Len(other) : other[j].uuid # registry[i].uuid)
                    => registry[i].uuid \notin FileKeys(file)

\* The second instance saved over a file that held an entry only the first
\* instance has, and holds an entry the first lacks
C29_Witness ==
    /\ last.op = "other.save"
    /\ last.kind = "written"
    /\ \E i \in 1..Len(registry) :
          /\ registry[i].uuid \in last.active
          /\ \A j \in 1..Len(other) : other[j].uuid # registry[i].uuid
    /\ \E j \in 1..Len(other) :
          \A i \in 1..Len(registry) : other[j].uuid # registry[i].uuid
    /\ FileHolds(other)

\* C30: findMatch, assignUuid, update, add and save keep every identifier
\* of the registry and do not make it smaller; only cleanup removes.
C30_OnlyCleanupRemoves ==
    [][last'.op \in {"findMatch", "assignUuid", "update", "add", "save"}
       => /\ \A i \in 1..Len(registry) : HasUuid(registry', registry[i].uuid)
          /\ Len(registry') >= Len(registry)]_vars

\* A registry of two entries, one of them seen again since it was created,
\* has been saved
C30_Witness ==
    /\ last.op = "save"
    /\ Len(registry) = 2
    /\ \E i \in 1..Len(registry) : registry[i].lastSeen > registry[i].createdAt

\* Every entry's fingerprint is a digest of another algorithm than the one
\* the fingerprinter is configured with
AllOfOtherAlgorithm ==
    \A i \in 1..Len(registry) : registry[i].hash.algorithm # fpOptions.hashAlgorithm

\* C31: when every entry's fingerprint was made under the other hash
\* algorithm than the fingerprinter's, findMatch never returns an exact
\* match: the result is a fuzzy match or no match.
C31_OtherAlgorithmNeverExact ==
    (last.op = "findMatch" /\ AllOfOtherAlgorithm) => last.kind \in {"fuzzy", "none"}

\* An occurrence whose body an entry was made from, under the other
\* algorithm, is matched fuzzily
C31_Witness ==
    /\ last.op = "findMatch"
    /\ AllOfOtherAlgorithm
    /\ last.kind = "fuzzy"
    /\ \E i \in 1..Len(registry) :
          /\ registry[i].uuid = last.uuid
          /\ registry[i].hash.text = Fingerprint(last.testFunction, fpOptions).text

\* What the getMatchDetails call of last returned (the call leaves the
\* registry and the options as they are)
DetailsOfLast == getMatchDetails(registry, last.testFunction, last.nodeId, options, fpOptions)

\* C32: the candidates getMatchDetails returns are in order of
\* non-increasing similarity, at most maxCandidates many, none of them an
\* entry with the fingerprint of the occurrence, and none at all when the
\* match is exact.
C32_CandidatesSortedAndCapped ==
    last.op = "getMatchDetails" =>
        \E candidates \in {DetailsOfLast.candidates} :
            /\ last.removed = Len(candidates)
            /\ \A i \in 1..Len(candidates), j \in 1..Len(candidates) :
                  i < j => candidates[i].similarity >= candidates[j].similarity
            /\ Len(candidates) <= options.maxCandidates
            /\ \A i \in 1..Len(candidates) :
                  candidates[i].entry.hash # Fingerprint(last.testFunction, fpOptions)
            /\ last.kind = "exact" => candidates = << >>

\* With maxCandidates 1 and two entries of other fingerprints, the one
\* candidate returned is the entry inserted second, which scores higher
C32_Witness ==
    /\ last.op = "getMatchDetails"
    /\ options.maxCandidates = 1
    /\ Len(registry) = 2
    /\ ExactMiss(registry, last)
    /\ last.removed = 1
    /\ DetailsOfLast.candidates[1].entry.uuid = registry[2].uuid
    /\ ScoreOfLast(last, registry[2]) > ScoreOfLast(last, registry[1])

\* C33: with autoSave and autoCleanup both off, onFinished leaves the
\* registry and the backing file as they are and empties assignedUuids.
C33_OnFinishedWithBothOffOnlyResets ==
    [][(last'.op = "onFinished" /\ ~config.autoSave /\ ~config.autoCleanup)
       => /\ registry' = registry
          /\ file' = file
          /\ assignedUuids' = {}
          /\ tasks' = tasks
          /\ last'.removed = 0]_vars

\* A run ended with both options off while the registry held an entry that
\* was not assigned in the run
C33_Witness ==
    /\ last.op = "onFinished"
    /\ ~config.autoSave /\ ~config.autoCleanup
    /\ \E i \in 1..Len(registry) : registry[i].uuid \notin last.active
    /\ assignedUuids = {}
    /\ file = Missing

\* What a caller sees of a match result
Reported(m) == [kind |-> MatchKind(m), uuid |-> m.uuid, confidence |-> m.confidence]

\* C34: on the same registry, occurrence and node id, the match of
\* getMatchDetails and the result of findMatch are the same: both none, or
\* the same identifier, confidence and exactness.
C34_DetailsMatchIsFindMatch ==
    /\ last.op = "getMatchDetails" =>
          [kind |-> last.kind, uuid |-> last.uuid, confidence |-> last.confidence]
              = Reported(findMatch(registry, last.testFunction, last.nodeId,
                                   options, fpOptions))
    /\ last.op = "findMatch" =>
          [kind |-> last.kind, uuid |-> last.uuid, confidence |-> last.confidence]
              = Reported(DetailsOfLast.match)

\* getMatchDetails found candidates, none of them at the threshold, and
\* reported no match
C34_Witness ==
    /\ last.op = "getMatchDetails"
    /\ last.kind = "none"
    /\ last.removed >= 1
    /\ \E i \in 1..Len(registry) : ScoreOfLast(last, registry[i]) > 0

\* C35: findMatch and getMatchDetails leave every entry of the registry,
\* its size and the backing file as they are, whatever they return.
C35_MatchingIsReadOnly ==
    [][last'.op \in {"findMatch", "getMatchDetails"}
       => /\ registry' = registry
          /\ Len(registry') = Len(registry)
          /\ file' = file]_vars

\* A fuzzy match was found in a registry whose entries had been saved
C35_Witness ==
    /\ last.op \in {"findMatch", "getMatchDetails"}
    /\ last.kind = "fuzzy"
    /\ Len(registry) >= 1
    /\ FileHolds(registry)
    /\ \E i \in 1..Len(registry) :
          /\ registry[i].uuid = last.uuid
          /\ registry[i].lastNodeId # last.nodeId

\* C36: when a run with autoCleanup on ends, after its onTaskUpdate calls,
\* every task that carries a testUuid has a registry entry under it.
C36_TaskUuidsSurviveRunEnd ==
    [][(last.op = "onTaskUpdate" /\ last'.op = "onFinished" /\ config.autoCleanup)
       => \A t \in TaskIds :
              tasks'[t].testUuid # NoUuid => HasUuid(registry', tasks'[t].testUuid)]_vars

\* C37: after an onTaskUpdate call, the registry entry under the testUuid of
\* a task has the task's testFingerprint as its hash.
C37_EntryHasTaskFingerprint ==
    last.op = "onTaskUpdate" =>
        \A t \in TaskIds : \A i \in 1..Len(registry) :
            (tasks[t].testUuid # NoUuid /\ registry[i].uuid = tasks[t].testUuid)
                => registry[i].hash = tasks[t].testFingerprint

\* C38: with a clock that does not run backwards, every entry has
\* createdAt <= lastSeen, and update and assignUuid never lower the lastSeen
\* of an entry.
C38_LastSeenNeverBeforeCreation ==
    [][/\ \A j \in 1..Len(registry') :
             registry'[j].createdAt <= registry'[j].lastSeen
       /\ last'.op \in {"update", "assignUuid"} =>
             \A i \in 1..Len(registry), j \in 1..Len(registry') :
                 registry'[j].uuid = registry[i].uuid
                     => registry'[j].lastSeen >= registry[i].lastSeen]_vars

\* An entry was seen again, by update or assignUuid, later than it was
\* created
C38_Witness ==
    /\ last.op \in {"update", "assignUuid"}
    /\ \E i \in 1..Len(registry) :
          /\ registry[i].uuid = last.uuid
          /\ registry[i].lastSeen > registry[i].createdAt

\* C39: with onlyUuidTests off, the results hold one record per test task
\* reported: no task has two records, and a task that has a record keeps
\* one through every onTaskUpdate call (its record is replaced by a record
\* of the same task only).
C39_OneRecordPerReportedTask ==
    [][(~reporter.onlyUuidTests /\ last'.op = "reporter.onTaskUpdate")
       => /\ \A i \in 1..Len(reporter'.results), j \in 1..Len(reporter'.results) :
                reporter'.results[i].taskId = reporter'.results[j].taskId => i = j
          /\ \A i \in 1..Len(reporter.results) :
                \E j \in 1..Len(reporter'.results) :
                    reporter'.results[j].taskId = reporter.results[i].taskId]_vars

====
